---- MODULE Spec2Model ----
(***************************************************************************)
(* Model of slack-for-vscode: the notification poller                      *)
(* (SlackNotificationManager), the unread-count derivation, the cursor     *)
(* listings and the errors of SlackApiClient, withConcurrencyLimit, the    *)
(* notification prompt, the tree provider's loading and pins, and the      *)
(* conversation view.                                                      *)
(*                                                                         *)
(* Specifications of this module:                                          *)
(*   Spec         the poller: start/stop, timer ticks, poll cycles whose   *)
(*                awaits resolve in any order.                             *)
(*   SpecHistory  the same poller with the history variables recorded      *)
(*                (what each cycle saw when it began, the last lifecycle   *)
(*                call), start() being called only when no earlier start() *)
(*                is pending.                                              *)
(*   SpecInstalls the poller of Spec, with a record of what each           *)
(*                installation does to the stored snapshot.                *)
(*   SpecUnread   one run of _fetchUnreadCount against a remote whose      *)
(*                conversation is drawn in Init and whose call outcomes    *)
(*                are drawn as each call settles.                          *)
(*   SpecHistoryLive  SpecHistory with the event loop's fairness: an armed *)
(*                interval fires and every await settles.                  *)
(*   SpecPollerClient  _fetchUnreadCount run on the client a poll cycle    *)
(*                constructs, in a session whose user is known.            *)
(*   SpecList     one cursor listing (_listAllChannels or listUsers)       *)
(*                against a remote whose pages chain to the end.           *)
(*   SpecListLive the listing against a remote that answers any cursor,    *)
(*                with the fairness of its replies.                        *)
(*   SpecPool     one call of withConcurrencyLimit, its tasks settling in  *)
(*                any order.                                               *)
(*   SpecDelta    the channel loop of checkNewMessages applied to one      *)
(*                stored snapshot and one listing.                         *)
(*   SpecLookback one run of _fetchUnreadCount on backlogs around the      *)
(*                history request's limit.                                 *)
(*   SpecPaging   the cursor loops (_listAllChannels, listUsers,           *)
(*                _findExistingDM) with each request recorded.             *)
(*   SpecPrompt   showNotification and the answer to its prompt.           *)
(*   SpecTree     the tree provider's refresh and _loadData, with the      *)
(*                fairness of the view and of the awaits.                  *)
(*   SpecPins     addDM/removeDM and the persisted pin list.               *)
(*   SpecFanout   the poller's schedule with the unread computations of    *)
(*                its cycles counted.                                      *)
(*   SpecScope    one client operation against every answer of the remote, *)
(*                and the message handed to its caller.                    *)
(*   SpecSend     the sendMessage branch of a conversation panel's message *)
(*                handler, for messages whose handling may interleave.     *)
(*   SpecPanels   the conversation view's panels under opens and disposals.*)
(***************************************************************************)
EXTENDS Integers, Sequences, FiniteSets, Bags, TLC

\* ------------------------------------------------------------------ bounds
MaxCount == 2       \* largest unread count the remote reports for one conversation
MaxCycles == 2      \* checkNewMessages() activations that may be in flight together
MaxTimers == 2      \* interval timers that may be armed together
MaxMsgs == 5        \* messages of the remote conversation in SpecUnread
MaxPages == 3       \* pages the remote holds for one listing
MaxTasks == 3       \* items handed to withConcurrencyLimit
MaxLimit == 3       \* largest limit handed to withConcurrencyLimit
MaxPrompts == 3     \* information messages shown in SpecPrompt
MaxRefreshes == 2   \* refresh() calls in SpecTree
MaxLoads == 2       \* _loadData() activations that may be in flight together
MaxPinCalls == 2    \* addDM/removeDM calls that may await their update together
MaxChannels == 6    \* member channels one listing returns in SpecFanout
MaxSends == 2       \* sendMessage messages one panel's handler receives
MaxPanels == 4      \* webview panels created in SpecPanels

\* ------------------------------------------------------------- identifiers
ChanOrder == <<"C1">>                \* the remote's (stable) listing order
Channels == {ChanOrder[i] : i \in 1..Len(ChanOrder)}
DMIds == {"D1"}                      \* direct-message conversations that can be pinned
Ids == Channels \cup DMIds
Handles == 1..MaxTimers              \* timer handles; 0 stands for undefined

VARIABLES
  \* --- SlackNotificationManager
  timer,          \* this.timer: 0 (undefined) or a handle
  unreadCache,    \* this.unreadCache: Map conversation id -> count
  isFirstRun,     \* this.isFirstRun
  cycles,         \* bag of the checkNewMessages() activations in flight
  \* --- environment of the poller
  armed,          \* interval timers armed in the event loop
  emitted,        \* NotificationEvents handed to showNotification by the last step
  lastStep,       \* kind of the last step taken
  \* --- history, recorded only when `history` holds (it never changes)
  history,
  running,        \* the last lifecycle call was start() (FALSE after stop())
  lastInstall,    \* SpecInstalls: what the last step's installation did to the
                  \* stored snapshot: "dropped" (an id vanished), "lowered"
                  \* (a count decreased); empty when it installed nothing
  \* --- SlackApiClient._fetchUnreadCount (SpecUnread)
  myUserId,       \* this.myUserId: Undefined or a user id
  conv,           \* the remote conversation: channel.last_read, and the messages
                  \* the remote returns for a history request after that marker
  infoOut,        \* outcome the remote gives the conversations.info call
  histOut,        \* outcome the remote gives the conversations.history call
  fpc,            \* position of _fetchUnreadCount
  fresult,        \* its return value (-1 while it runs)
  histReq,        \* history requests it issued
  histParams,     \* the parameters of the history request it issued
  \* --- SlackApiClient._listAllChannels / listUsers (SpecList, SpecListLive)
  remote,         \* the remote's pages: sequence of [items, next_cursor]
  listKind,       \* "channels" (_listAllChannels) or "users" (listUsers)
  listPc,         \* position of the listing: idle, await, reply, done, threw
  listCursor,     \* its local `cursor`: 0 stands for ''
  listSent,       \* params.cursor of the request in flight (0: not set)
  listResults,    \* its local `results`
  listReqs,       \* requests it issued, counted up to MaxPages + 1
  listOut,        \* outcome the remote gave the last request
  findUser,       \* _findExistingDM: the userId looked for ("" in a listing)
  \* --- withConcurrencyLimit (SpecPool)
  poolItems,      \* items: for each, the value fn(item) resolves to when it succeeds
  poolLimit,      \* limit
  poolPc,         \* idle, running (awaiting Promise.all), done
  poolIndex,      \* index: the items taken so far
  poolRunning,    \* the tasks in flight, one per live worker
  poolResults,    \* results: one slot per item
  poolRuns,       \* for each item, the times fn was called on it
  poolFailed,     \* the tasks whose promise rejected
  \* --- the channel loop of checkNewMessages on its own (SpecDelta)
  dStored,        \* this.unreadCache when the loop runs
  dFirst,         \* this.isFirstRun when the loop runs
  dChannels,      \* channels: what getChannels() resolved to
  dPc,            \* idle, ready, done
  dNewCache,      \* newCache after the loop
  dNews,          \* news after the loop
  \* --- showNotification and the openConversation command (SpecPrompt)
  prompts,        \* the information messages shown: [id, name, count, state]
  opened,         \* the calls of the openConversation command, in order
  \* --- SlackTreeDataProvider: refresh and the tree load (SpecTree)
  loaded,         \* _loaded
  loading,        \* _loading
  treeChannels,   \* _channels: -1 for [], else the refresh count at which
                  \* the listing that produced them was requested
  treeError,      \* _error: "none" for undefined, else a message
  dirty,          \* onDidChangeTreeData fired (or the view just opened) and
                  \* the view has not yet asked for the root items
  loads,          \* the _loadData() activations in flight
  refreshes,      \* refresh() calls so far
  lastLoad,       \* the refresh count at which the load that ended last
                  \* (returned or rejected) had begun (-1: none ended)
  \* --- SlackTreeDataProvider: addDM and removeDM (SpecPins)
  pinnedDMs,      \* _pinnedDMs: sequence of [userId, dmId]
  persisted,      \* the list stored under PINNED_DMS_KEY
  pinWrites,      \* globalState.update calls not yet settled, oldest first
  pinFires,       \* change events fired by addDM and removeDM, counted modulo 2
  lastPin,        \* the last call made: [op, userId, wasPinned]
  \* --- the unread computations of the poll cycles (SpecFanout)
  fanTimer,       \* "off", "initial" (start() awaits its first cycle), "armed"
  fanCycles,      \* the cycles in flight: [origin, pc, n, index, running, pins]
  \* --- one client operation and the error it hands to its caller (SpecScope)
  scopeOp,        \* "none", "testAuth", "addDm"
  scopePc,        \* "idle", "find", "call", "done"
  scopeResponse,  \* the response of the remote service to the operation's call
  scopeError,     \* the error call() threw: [thrown, code, needed, message]
  scopeShown,     \* the message handed on: errorMessage, or showErrorMessage's text
  scopeDm,        \* openDMConversation: [find, foundId, opened, kind, id]
  \* --- the conversation view (SpecSend)
  sends,          \* per sendMessage message: [pc, post, mark, result, called]
  \* --- the conversation view's panels (SpecPanels)
  panels,         \* this.panels: conversation id -> panel handle, 0 when absent
  livePanels,     \* the panels created and not disposed: [h, id]
  panelsCreated,  \* the number of createWebviewPanel calls so far
  viewLast        \* the last event: [op, id, h, fresh]

pollerVars == <<timer, unreadCache, isFirstRun, cycles, armed, emitted, lastStep,
                history, running, lastInstall>>
unreadVars == <<myUserId, conv, infoOut, histOut, fpc, fresult, histReq,
                histParams>>
listVars == <<remote, listKind, listPc, listCursor, listSent, listResults,
              listReqs, listOut, findUser>>
poolVars == <<poolItems, poolLimit, poolPc, poolIndex, poolRunning,
              poolResults, poolRuns, poolFailed>>
deltaVars == <<dStored, dFirst, dChannels, dPc, dNewCache, dNews>>
promptVars == <<prompts, opened>>
treeVars == <<loaded, loading, treeChannels, treeError, dirty, loads, refreshes,
              lastLoad>>
pinVars == <<pinnedDMs, persisted, pinWrites, pinFires, lastPin>>
fanVars == <<fanTimer, fanCycles>>
scopeVars == <<scopeOp, scopePc, scopeResponse, scopeError, scopeShown, scopeDm>>
\* the rest of the extension's objects, each with a specification of its own
viewVars == <<sends, panels, livePanels, panelsCreated, viewLast>>
extensionVars == <<promptVars, treeVars, pinVars, fanVars, scopeVars, viewVars>>
vars == <<timer, unreadCache, isFirstRun, cycles, armed, emitted, lastStep,
          history, running, lastInstall,
          myUserId, conv, infoOut, histOut, fpc, fresult, histReq, histParams,
          remote, listKind, listPc, listCursor, listSent, listResults,
          listReqs, listOut, findUser,
          poolItems, poolLimit, poolPc, poolIndex, poolRunning,
          poolResults, poolRuns, poolFailed,
          dStored, dFirst, dChannels, dPc, dNewCache, dNews,
          prompts, opened,
          loaded, loading, treeChannels, treeError, dirty, loads, refreshes,
          lastLoad,
          pinnedDMs, persisted, pinWrites, pinFires, lastPin,
          fanTimer, fanCycles,
          scopeOp, scopePc, scopeResponse, scopeError, scopeShown, scopeDm,
          sends, panels, livePanels, panelsCreated, viewLast>>

\* -------------------------------------------------------------- Map helpers
EmptyMap == [x \in {} |-> 0]
MapSet(m, k, v) == [x \in (DOMAIN m) \cup {k} |-> IF x = k THEN v ELSE m[x]]
\* Map.get(id) ?? 0
GetOrZero(m, k) == IF k \in DOMAIN m THEN m[k] ELSE 0

\* ======================================================================
\* SlackApiClient: call and _fetchUnreadCount
\* ======================================================================
Undefined == "undefined"
\* JavaScript truthiness of an optional string
Truthy(x) == x \notin {Undefined, ""}

\* How one remote call can end:
\*   ok          {ok: true, ...payload}
\*   error       {ok: false, error: "..."}
\*   noerror     {ok: false} with no error code (and no payload)
\*   transport   the request fails (httpsPost rejects)
\*   unparsable  the body is not JSON (JSON.parse throws)
CallOutcomes == {"ok", "error", "noerror", "transport", "unparsable"}

\* call(): rejects on a transport failure, on an unparsable body, and on
\* `!res.ok && res.error`; otherwise hands res to the caller.
CallThrows(out) == out \in {"transport", "unparsable", "error"}

\* infoRes.channel?.last_read: only an ok response carries the channel.
LastReadOf(out) == IF out = "ok" THEN conv.last_read ELSE Undefined

\* limit: '100'
HistoryLimit == 100

NoRequest == [oldest |-> "", limit |-> 0, inclusive |-> FALSE]

\* Mutant of HistoryRequest: the lower bound is inclusive.
HistoryRequestInclusive(lastRead) ==
  [oldest |-> lastRead, limit |-> HistoryLimit, inclusive |-> TRUE]

\* { channel, oldest: lastRead, limit: '100', inclusive: 'false' }: no cursor.
HistoryRequest(lastRead) ==
  [oldest |-> lastRead, limit |-> HistoryLimit, inclusive |-> FALSE]

\* The remote's answer to a history request: of the messages it holds from
\* the marker on, those after `oldest` (the one at `oldest` too when the
\* request is inclusive), `limit` of them at most. A message carries its
\* timestamp only where the model needs it: one without is after the marker.
AtOldest(m, params) == "ts" \in DOMAIN m /\ m.ts = params.oldest
HistoryPage(params, messages) ==
  LET InRange(m) == AtOldest(m, params) => params.inclusive
      range == SelectSeq(messages, InRange)
  IN  IF Len(range) <= params.limit THEN range
      ELSE SubSeq(range, 1, params.limit)

\* histRes.messages ?? []: only an ok response carries messages.
MessagesOf(out) ==
  IF out = "ok" THEN HistoryPage(histParams, conv.messages) ELSE <<>>

\* Mutant of NoMarker: the `!lastRead` test is lost.
NoMarkerZeroOnly(lastRead) == lastRead = "0"

\* if (!lastRead || lastRead === '0') { return 0; }
NoMarker(lastRead) == ~Truthy(lastRead) \/ lastRead = "0"

\* Mutant of CountsAsUnread: the author test is lost.
CountsAsUnreadAnyAuthor(m, me) == ~Truthy(m.subtype)

\* The filter callback of _fetchUnreadCount.
CountsAsUnread(m, me) ==
  IF Truthy(m.subtype) THEN FALSE
  ELSE IF Truthy(me) /\ m.user = me THEN FALSE
  ELSE TRUE

\* (...).filter(...).length
CountUnread(messages, me) ==
  LET Keep(m) == CountsAsUnread(m, me)
  IN  Len(SelectSeq(messages, Keep))

\* Mutant of CatchReturnsZero: the error leaves _fetchUnreadCount.
CatchRethrows ==
  /\ fpc' = "threw"
  /\ fresult' = -1

\* catch { return 0; }
CatchReturnsZero ==
  /\ fpc' = "done"
  /\ fresult' = 0

\* _fetchUnreadCount(channelId) up to its first await: conversations.info is sent.
FetchBegin ==
  /\ fpc = "idle"
  /\ fpc' = "info"
  /\ UNCHANGED <<myUserId, conv, infoOut, histOut, fresult, histReq, histParams>>

\* conversations.info settles.
InfoResolve(out) ==
  /\ fpc = "info"
  /\ infoOut' = out
  /\ IF CallThrows(out)
       THEN CatchReturnsZero /\ UNCHANGED <<histReq, histParams>>
       ELSE IF NoMarker(LastReadOf(out))
              THEN fpc' = "done" /\ fresult' = 0 /\ UNCHANGED <<histReq, histParams>>
              ELSE /\ fpc' = "hist"
                   /\ histReq' = histReq + 1
                   /\ histParams' = HistoryRequest(LastReadOf(out))
                   /\ UNCHANGED fresult
  /\ UNCHANGED <<myUserId, conv, histOut>>

\* conversations.history (oldest: lastRead, limit: 100, inclusive: false) settles.
HistResolve(out) ==
  /\ fpc = "hist"
  /\ histOut' = out
  /\ IF CallThrows(out)
       THEN CatchReturnsZero
       ELSE /\ fpc' = "done"
            /\ fresult' = CountUnread(MessagesOf(out), myUserId)
  /\ UNCHANGED <<myUserId, conv, infoOut, histReq, histParams>>

\* The messages a history response can carry.
MessageKinds ==
  { [subtype |-> "channel_join", user |-> "U2"],   \* a system event
    [subtype |-> "channel_join", user |-> "U1"],
    [subtype |-> "", user |-> "U1"],
    [subtype |-> "", user |-> "U2"],
    [subtype |-> "", user |-> Undefined] }          \* no author
MessageLists == UNION {[1..n -> MessageKinds] : n \in 0..MaxMsgs}
LastReads == {Undefined, "", "0", "1700000000.000100"}
Identities == {Undefined, "U1"}

\* ======================================================================
\* SlackApiClient: _listAllChannels and listUsers (cursor pagination)
\* ======================================================================
\* An item of a listing page, with the fields the two filters read.
Item(id, member, bot, deleted) ==
  [id |-> id, is_member |-> member, is_bot |-> bot, deleted |-> deleted]

\* What one page can hold.
PageContents ==
  { <<>>,
    <<Item("a", TRUE, FALSE, FALSE)>>,
    <<Item("x", FALSE, TRUE, FALSE), Item("b", TRUE, FALSE, FALSE)>>,
    <<Item("b", TRUE, FALSE, TRUE), Item("a", TRUE, FALSE, FALSE)>> }

\* A cursor is 0 (the empty string, or none) or k > 0, the token with which
\* the remote continues at its page k.
Cursors(n) == 0..n

\* The remote that serves the pages P1..Pn in sequence: every page but the
\* last carries the cursor of the next page, the last carries none.
ChainOf(contents) ==
  [k \in 1..Len(contents) |->
     [items |-> contents[k],
      next_cursor |-> IF k < Len(contents) THEN k + 1 ELSE 0]]
PageChains ==
  UNION {{ChainOf(cs) : cs \in [1..n -> PageContents]} : n \in 1..MaxPages}

\* Any remote: each page carries any cursor, its own and earlier ones included.
PageTables ==
  UNION {[1..n -> [items : PageContents, next_cursor : Cursors(n)]] :
           n \in 1..MaxPages}

\* The page the remote serves for a request: the first when the request
\* carries no cursor.
PageAt(sent) == IF sent = 0 THEN 1 ELSE sent

\* res.channels ?? [] / res.members ?? [] and
\* res.response_metadata?.next_cursor ?? '' of the response call() returned:
\* a response that is not ok carries neither.
PageOf(out, sent) ==
  IF out = "ok" THEN remote[PageAt(sent)]
  ELSE [items |-> <<>>, next_cursor |-> 0]

\* .filter((ch) => ch.is_member) / .filter((u) => !u.is_bot && !u.deleted)
KeepsItem(kind, it) ==
  IF kind = "channels" THEN it.is_member ELSE ~it.is_bot /\ ~it.deleted

FilterItems(kind, items) ==
  LET Keep(it) == KeepsItem(kind, it) IN SelectSeq(items, Keep)

\* Mutant of NextCursor: the continuation cursor is dropped.
NextCursorDropped(page) == 0

\* Mutant of NextCursor: the cursor of the page before is sent again.
NextCursorStale(page) ==
  IF page.next_cursor > 1 THEN page.next_cursor - 1 ELSE page.next_cursor

\* cursor = res.response_metadata?.next_cursor ?? ''
NextCursor(page) == page.next_cursor

\* requests are counted up to MaxPages + 1
CountRequest(n) == IF n <= MaxPages THEN n + 1 ELSE n

\* The items the listing can hold in a run the model follows.
MaxPageLen == CHOOSE m \in 0..10 :
                /\ \A c \in PageContents : Len(c) <= m
                /\ \E c \in PageContents : Len(c) = m
ResultsCap == (MaxPages + 1) * MaxPageLen

\* The listing is called: first pass of the do-while up to `await this.call`,
\* cursor '' so params.cursor is not set.
ListBegin ==
  /\ listPc = "idle"
  /\ listPc' = "await"
  /\ listSent' = 0
  /\ listReqs' = CountRequest(listReqs)
  /\ UNCHANGED <<remote, listKind, listCursor, listResults, listOut, findUser>>

\* The remote answers the request in flight (or the connection fails):
\* the promise of httpsPost settles.
ListReply(out) ==
  /\ listPc = "await"
  /\ listPc' = "reply"
  /\ listOut' = out
  /\ UNCHANGED <<remote, listKind, listCursor, listSent, listResults, listReqs,
                 findUser>>

\* The listing resumes after `await this.call(...)`: call() throws and the
\* listing rejects, or the page is filtered and appended, the cursor taken,
\* and either the next request is issued (`while (cursor)`) or the results
\* are returned.
ListResume ==
  /\ listPc = "reply"
  /\ IF CallThrows(listOut)
       THEN /\ listPc' = "threw"
            /\ UNCHANGED <<listCursor, listSent, listResults, listReqs>>
       ELSE LET page == PageOf(listOut, listSent)
                more == listResults \o FilterItems(listKind, page.items)
                cur == NextCursor(page)
            IN  /\ Len(more) <= ResultsCap
                /\ listResults' = more
                /\ listCursor' = cur
                /\ IF cur # 0
                     THEN /\ listPc' = "await"
                          /\ listSent' = cur
                          /\ listReqs' = CountRequest(listReqs)
                     ELSE /\ listPc' = "done"
                          /\ UNCHANGED <<listSent, listReqs>>
  /\ UNCHANGED <<remote, listKind, listOut, findUser>>

\* In a listing of type im the item's id stands for the conversation's user
\* as well (i.user), and for the id returned when it is found.
HasUser(items, userId) == \E i \in 1..Len(items) : items[i].id = userId

\* _findExistingDM resumes after `await this.call(...)`: call() throws, or the
\* page holds the user's conversation and its id is returned, or the cursor
\* is taken and the next request issued, or undefined is returned.
FindResume ==
  /\ listPc = "reply"
  /\ listKind = "im"
  /\ IF CallThrows(listOut)
       THEN /\ listPc' = "threw"
            /\ UNCHANGED <<listCursor, listSent, listResults, listReqs>>
       ELSE LET page == PageOf(listOut, listSent)
                cur == NextCursor(page)
            IN  IF HasUser(page.items, findUser)
                  THEN /\ listPc' = "done"
                       /\ listResults' = <<findUser>>
                       /\ UNCHANGED <<listCursor, listSent, listReqs>>
                  ELSE /\ listCursor' = cur
                       /\ UNCHANGED listResults
                       /\ IF cur # 0
                            THEN /\ listPc' = "await"
                                 /\ listSent' = cur
                                 /\ listReqs' = CountRequest(listReqs)
                            ELSE /\ listPc' = "done"
                                 /\ UNCHANGED <<listSent, listReqs>>
  /\ UNCHANGED <<remote, listKind, listOut, findUser>>

ListKinds == {"channels", "users"}

\* No listing is running.
ListIdle ==
  /\ remote = <<>>
  /\ listKind = "channels"
  /\ listPc = "idle"
  /\ listCursor = 0
  /\ listSent = 0
  /\ listResults = <<>>
  /\ listReqs = 0
  /\ listOut = "none"
  /\ findUser = ""

\* ======================================================================
\* withConcurrencyLimit (worker pool)
\* ======================================================================
\* A slot of `new Array(items.length)`: empty until results[i] is assigned.
Hole == [filled |-> FALSE, value |-> 0]
Filled(v) == [filled |-> TRUE, value |-> v]

\* Math.min(limit, items.length)
Min(a, b) == IF a <= b THEN a ELSE b

TaskValues == 1..2
ItemLists == UNION {[1..n -> TaskValues] : n \in 0..MaxTasks}
Limits == 1..MaxLimit

\* Mutant of TakeNext: a worker returns after its first task.
TakeNextNever(i) ==
  /\ poolRunning' = poolRunning \ {i}
  /\ UNCHANGED <<poolIndex, poolRuns>>

\* while (index < items.length) { const i = index++; ... fn(items[i]) }, as
\* the worker that awaited task i comes round the loop: it takes the next
\* item, or returns when none is left.
TakeNext(i) ==
  IF poolIndex < Len(poolItems)
    THEN /\ poolIndex' = poolIndex + 1
         /\ poolRunning' = (poolRunning \ {i}) \cup {poolIndex + 1}
         /\ poolRuns' = [poolRuns EXCEPT ![poolIndex + 1] = @ + 1]
    ELSE /\ poolRunning' = poolRunning \ {i}
         /\ UNCHANGED <<poolIndex, poolRuns>>

\* Mutant of StoreResult: results are stored in completion order.
StoreInCompletionOrder(i) ==
  LET free == {k \in 1..Len(poolResults) : ~poolResults[k].filled}
      k == CHOOSE x \in free : \A y \in free : x <= y
  IN  poolResults' = [poolResults EXCEPT ![k] = Filled(poolItems[i])]

\* results[i] = await fn(items[i])
StoreResult(i) ==
  poolResults' = [poolResults EXCEPT ![i] = Filled(poolItems[i])]

\* Mutant of PoolStart: one worker per item, whatever the limit.
PoolStartUnbounded ==
  LET n == Len(poolItems)
  IN  /\ poolPc = "idle"
      /\ poolPc' = "running"
      /\ poolResults' = [k \in 1..n |-> Hole]
      /\ poolIndex' = n
      /\ poolRunning' = 1..n
      /\ poolRuns' = [k \in 1..n |-> 1]
      /\ UNCHANGED <<poolItems, poolLimit, poolFailed>>

\* withConcurrencyLimit is called: the results array is allocated and
\* Array.from runs worker() min(limit, items.length) times, each up to its
\* first await.
PoolStart ==
  LET n == Len(poolItems)
      w == Min(poolLimit, n)
  IN  /\ poolPc = "idle"
      /\ poolPc' = "running"
      /\ poolResults' = [k \in 1..n |-> Hole]
      /\ poolIndex' = w
      /\ poolRunning' = 1..w
      /\ poolRuns' = [k \in 1..n |-> IF k <= w THEN 1 ELSE 0]
      /\ UNCHANGED <<poolItems, poolLimit, poolFailed>>

\* fn(items[i]) fulfils: the worker stores the value and comes round the loop.
TaskFulfils(i) ==
  /\ poolPc = "running"
  /\ i \in poolRunning
  /\ StoreResult(i)
  /\ TakeNext(i)
  /\ UNCHANGED <<poolItems, poolLimit, poolPc, poolFailed>>

\* fn(items[i]) rejects: the worker logs the error and comes round the loop.
TaskRejects(i) ==
  /\ poolPc = "running"
  /\ i \in poolRunning
  /\ poolFailed' = poolFailed \cup {i}
  /\ TakeNext(i)
  /\ UNCHANGED <<poolItems, poolLimit, poolPc, poolResults>>

\* Every worker has returned: Promise.all fulfils and results is returned.
PoolReturn ==
  /\ poolPc = "running"
  /\ poolRunning = {}
  /\ poolPc' = "done"
  /\ UNCHANGED <<poolItems, poolLimit, poolIndex, poolRunning, poolResults,
                 poolRuns, poolFailed>>

\* withConcurrencyLimit is not running.
PoolIdle ==
  /\ poolItems = <<>>
  /\ poolLimit = 1
  /\ poolPc = "idle"
  /\ poolIndex = 0
  /\ poolRunning = {}
  /\ poolResults = <<>>
  /\ poolRuns = <<>>
  /\ poolFailed = {}

\* ======================================================================
\* SlackNotificationManager (src/src/slackNotificationManager.ts)
\* ======================================================================

\* What client.getChannels() can resolve to: the member channels in listing
\* order, each with the unread_count that getChannels stored on it.
ChannelListOf(g) ==
  LET Listed(id) == g[id] >= 0
      ids == SelectSeq(ChanOrder, Listed)
  IN  [i \in 1..Len(ids) |-> [id |-> ids[i], unread_count |-> g[ids[i]]]]
ChannelLists == {ChannelListOf(g) : g \in [Channels -> -1..MaxCount]}

\* What the pin store can hold when a cycle reads it: dmIds, no repetition.
PinLists == {<<>>} \cup {<<d>> : d \in DMIds}
              \cup {p \in DMIds \X DMIds : p[1] # p[2]}

\* What client.getUnreadCount(dmId) can resolve to (it may also reject:
\* DMResolve then takes the catch block).
UnreadCounts == 0..MaxCount

\* Mutant of NewsFor: the isFirstRun test is lost.
NewsForEveryRun(id, count, first, cache) ==
  IF count > GetOrZero(cache, id)
    THEN <<[id |-> id, count |-> count - GetOrZero(cache, id)]>>
    ELSE <<>>

\* Mutant of NewsFor: an id the stored snapshot lacks is never notified.
NewsForKnownOnly(id, count, first, cache) ==
  IF ~first /\ id \in DOMAIN cache /\ count > cache[id]
    THEN <<[id |-> id, count |-> count - cache[id]]>>
    ELSE <<>>

\* The body shared by both loops: the comparison against the stored
\* snapshot, skipped while isFirstRun holds.
NewsFor(id, count, first, cache) ==
  IF ~first /\ count > GetOrZero(cache, id)
    THEN <<[id |-> id, count |-> count - GetOrZero(cache, id)]>>
    ELSE <<>>

\* for (const ch of channels) { ... }: runs without an await, so it sees one
\* value of isFirstRun and unreadCache.
RECURSIVE ChannelLoop(_, _, _, _)
ChannelLoop(chs, first, cache, acc) ==
  IF chs = <<>> THEN acc
  ELSE LET ch == Head(chs) IN
       ChannelLoop(Tail(chs), first, cache,
                   [newCache |-> MapSet(acc.newCache, ch.id, ch.unread_count),
                    news |-> acc.news \o NewsFor(ch.id, ch.unread_count, first, cache)])

\* The loop's inputs before any cycle has run it.
DeltaIdle ==
  /\ dStored = EmptyMap
  /\ dFirst = TRUE
  /\ dChannels = <<>>
  /\ dPc = "idle"
  /\ dNewCache = EmptyMap
  /\ dNews = <<>>

\* The loop applied to one listing, with one value of the stored snapshot and
\* of the baseline flag.
RunChannelLoop ==
  /\ dPc = "ready"
  /\ LET r == ChannelLoop(dChannels, dFirst, dStored,
                          [newCache |-> EmptyMap, news |-> <<>>])
     IN  /\ dNewCache' = r.newCache
         /\ dNews' = r.news
  /\ dPc' = "done"
  /\ UNCHANGED <<dStored, dFirst, dChannels>>

NewCycle(origin) ==
  [pc |-> "token", origin |-> origin, todo |-> <<>>,
   newCache |-> EmptyMap, news |-> <<>>,
   \* history: the stored snapshot and flag when the cycle began its work
   old |-> EmptyMap, first |-> FALSE]

InFlight == BagCardinality(cycles)
Awaiting(pc) == {c \in BagToSet(cycles) : c.pc = pc}
Leave(c) == cycles (-) SetToBag({c})
Move(c, d) == (cycles (-) SetToBag({c})) (+) SetToBag({d})
\* the activations of bag b that are in S, with their multiplicity
CountIn(b, S) == BagCardinality([c \in S \cap BagToSet(b) |-> b[c]])
\* remote requests of the poller that await their reply
RequestsInFlight(b) == CountIn(b, {c \in BagToSet(b) : c.pc \in {"channels", "dms"}})
\* start() calls that await their initial cycle
StartsInFlight == CountIn(cycles, {c \in BagToSet(cycles) : c.origin = "start"})

FreshHandle == CHOOSE h \in Handles \ armed : \A k \in Handles \ armed : h <= k

\* The continuation of start() once `await this.checkNewMessages()` settles:
\* the interval is armed when the promise fulfilled; a rejection leaves start().
\* A cycle begun by the interval callback has no continuation.
AfterCycle(c, fulfilled) ==
  IF c.origin = "start" /\ fulfilled
    THEN /\ timer' = FreshHandle
         /\ armed' = armed \cup {FreshHandle}
    ELSE UNCHANGED <<timer, armed>>

\* start(), this.timer set: returns at once.
StartNoop ==
  /\ timer # 0
  /\ running' = (history \/ running)
  /\ lastStep' = "other"
  /\ emitted' = <<>>
  /\ UNCHANGED <<timer, armed, cycles, unreadCache, isFirstRun>>

\* start(), this.timer undefined: runs checkNewMessages() up to its first await.
StartRun ==
  /\ timer = 0
  /\ InFlight < MaxCycles
  /\ Cardinality(armed) + StartsInFlight < MaxTimers
  /\ cycles' = cycles (+) SetToBag({NewCycle("start")})
  /\ running' = (history \/ running)
  /\ lastStep' = "other"
  /\ emitted' = <<>>
  /\ UNCHANGED <<timer, armed, unreadCache, isFirstRun>>

stop ==
  /\ armed' = armed \ {timer}
  /\ timer' = 0
  /\ running' = FALSE
  /\ lastStep' = "other"
  /\ emitted' = <<>>
  /\ UNCHANGED <<cycles, unreadCache, isFirstRun>>

\* An armed interval fires: the callback calls checkNewMessages() and does not
\* await it.
Tick ==
  /\ armed # {}
  /\ InFlight < MaxCycles
  /\ cycles' = cycles (+) SetToBag({NewCycle("tick")})
  /\ lastStep' = "other"
  /\ emitted' = <<>>
  /\ UNCHANGED <<timer, armed, unreadCache, isFirstRun, running>>

\* `await this.authManager.getToken()` rejects: the await is outside the try.
TokenRejects(c) ==
  /\ cycles' = Leave(c)
  /\ AfterCycle(c, FALSE)
  /\ lastStep' = "reject"
  /\ emitted' = <<>>
  /\ UNCHANGED <<unreadCache, isFirstRun, running>>

\* Mutant of TokenAbsent: the early return is lost and getChannels() is called.
TokenAbsentCallsRemote(c) ==
  /\ cycles' = (cycles (-) SetToBag({c})) (+) SetToBag({[c EXCEPT !.pc = "channels"]})
  /\ lastStep' = "skip"
  /\ emitted' = <<>>
  /\ UNCHANGED <<timer, armed, unreadCache, isFirstRun, running>>

\* if (!token) { return; }
TokenAbsent(c) ==
  /\ cycles' = Leave(c)
  /\ AfterCycle(c, TRUE)
  /\ lastStep' = "skip"
  /\ emitted' = <<>>
  /\ UNCHANGED <<unreadCache, isFirstRun, running>>

\* A token: the pinned list is read and getChannels() is called.
TokenPresent(c, pinned) ==
  /\ cycles' = Move(c, [c EXCEPT !.pc = "channels", !.todo = pinned,
                                 !.old = IF history THEN unreadCache ELSE EmptyMap,
                                 !.first = history /\ isFirstRun])
  /\ lastStep' = "other"
  /\ emitted' = <<>>
  /\ UNCHANGED <<timer, armed, unreadCache, isFirstRun, running>>

\* Mutant of Finish: the new entries are merged over the stored snapshot.
FinishMerging(c, newCache, news) ==
  /\ unreadCache' = [id \in DOMAIN unreadCache \cup DOMAIN newCache |->
                       IF id \in DOMAIN newCache THEN newCache[id]
                                                 ELSE unreadCache[id]]
  /\ isFirstRun' = FALSE
  /\ emitted' = news
  /\ lastStep' = IF isFirstRun THEN "baseline" ELSE "finish"
  /\ cycles' = Leave(c)
  /\ AfterCycle(c, TRUE)
  /\ UNCHANGED running

\* Mutant of Finish: the snapshot is stored only when something is notified.
FinishStoresOnNews(c, newCache, news) ==
  /\ unreadCache' = IF news = <<>> /\ ~isFirstRun THEN unreadCache ELSE newCache
  /\ isFirstRun' = FALSE
  /\ emitted' = news
  /\ lastStep' = IF isFirstRun THEN "baseline" ELSE "finish"
  /\ cycles' = Leave(c)
  /\ AfterCycle(c, TRUE)
  /\ UNCHANGED running

\* this.unreadCache = newCache; this.isFirstRun = false; then the
\* showNotification calls, all in one synchronous run.
Finish(c, newCache, news) ==
  /\ unreadCache' = newCache
  /\ isFirstRun' = FALSE
  /\ emitted' = news
  /\ lastStep' = IF isFirstRun THEN "baseline" ELSE "finish"
  /\ cycles' = Leave(c)
  /\ AfterCycle(c, TRUE)
  /\ UNCHANGED running

\* Mutant of Caught: the events collected before the failure are shown.
CaughtNotifies(c) ==
  /\ cycles' = Leave(c)
  /\ AfterCycle(c, TRUE)
  /\ lastStep' = IF c.newCache = EmptyMap THEN "fail" ELSE "fail_partial"
  /\ emitted' = c.news
  /\ UNCHANGED <<unreadCache, isFirstRun, running>>

\* Mutant of Caught: the entries computed so far are installed.
CaughtInstallsPartial(c) ==
  /\ cycles' = cycles (-) SetToBag({c})
  /\ IF c.origin = "start"
       THEN timer' = FreshHandle /\ armed' = armed \cup {FreshHandle}
       ELSE UNCHANGED <<timer, armed>>
  /\ lastStep' = IF c.newCache = EmptyMap THEN "fail" ELSE "fail_partial"
  /\ emitted' = c.news
  /\ unreadCache' = c.newCache
  /\ isFirstRun' = FALSE
  /\ UNCHANGED running

\* catch (err) { console.error(...) }
Caught(c) ==
  /\ cycles' = Leave(c)
  /\ AfterCycle(c, TRUE)
  /\ lastStep' = IF c.newCache = EmptyMap THEN "fail" ELSE "fail_partial"
  /\ emitted' = <<>>
  /\ UNCHANGED <<unreadCache, isFirstRun, running>>

\* getChannels() resolves: the channel loop, then the first pinned lookup is
\* called, or the cycle completes when nothing is pinned.
ChannelsReturn(c, chs) ==
  LET r == ChannelLoop(chs, isFirstRun, unreadCache,
                       [newCache |-> EmptyMap, news |-> <<>>])
  IN  IF c.todo = <<>>
        THEN Finish(c, r.newCache, r.news)
        ELSE /\ cycles' = Move(c, [c EXCEPT !.pc = "dms",
                                            !.newCache = r.newCache,
                                            !.news = r.news])
             /\ lastStep' = "other"
             /\ emitted' = <<>>
             /\ UNCHANGED <<timer, armed, unreadCache, isFirstRun, running>>

\* getUnreadCount(dm.dmId) resolves: one pass of the pinned loop.
DMReturn(c, count) ==
  LET dm == Head(c.todo)
      nc == MapSet(c.newCache, dm, count)
      nw == c.news \o NewsFor(dm, count, isFirstRun, unreadCache)
  IN  IF Tail(c.todo) = <<>>
        THEN Finish(c, nc, nw)
        ELSE /\ cycles' = Move(c, [c EXCEPT !.todo = Tail(c.todo),
                                            !.newCache = nc, !.news = nw])
             /\ lastStep' = "other"
             /\ emitted' = <<>>
             /\ UNCHANGED <<timer, armed, unreadCache, isFirstRun, running>>

TokenResolve ==
  \E c \in Awaiting("token") :
    \/ TokenRejects(c)
    \/ TokenAbsent(c)
    \/ \E pinned \in PinLists : TokenPresent(c, pinned)

ChannelsResolve ==
  \E c \in Awaiting("channels") :
    \/ Caught(c)
    \/ \E chs \in ChannelLists : ChannelsReturn(c, chs)

DMResolve ==
  \E c \in Awaiting("dms") :
    \/ Caught(c)
    \/ \E n \in UnreadCounts : DMReturn(c, n)

\* ----------------------------------------------------------------------
\* showNotification (slackNotificationManager.ts) and the openConversation
\* command (extension.ts)
\* ----------------------------------------------------------------------

\* Names are sequences of characters: '#' + channel name, or a user name.
StartsWithHash(name) == Len(name) > 0 /\ Head(name) = "#"

\* { id, label: name.startsWith('#') ? name.slice(1) : name,
\*   kind: name.startsWith('#') ? 'channel' : 'dm' }
TargetOf(id, name) ==
  [id |-> id,
   label |-> IF StartsWithHash(name) THEN Tail(name) ELSE name,
   kind |-> IF StartsWithHash(name) THEN "channel" ELSE "dm"]

\* count === 1 ? `New message in ${name}` : `${count} new messages in ${name}`
MessageOf(name, count) ==
  IF count = 1 THEN <<"New message in">> \o name
  ELSE <<count, "new messages in">> \o name

\* The events showNotification can be called with.
NotifiedEvents ==
  {[id |-> "C1", name |-> <<"#", "g">>], [id |-> "D1", name |-> <<"a">>]}
NotifiedCounts == {1, 2}

\* Mutant of ShowNotification: the command is executed without waiting for
\* the selection.
ShowNotificationOpensAtOnce(ev, count) ==
  /\ Len(prompts) < MaxPrompts
  /\ prompts' = Append(prompts, [id |-> ev.id, name |-> ev.name,
                                  message |-> MessageOf(ev.name, count),
                                  state |-> "pending"])
  /\ opened' = Append(opened, [by |-> Len(prompts) + 1,
                                target |-> TargetOf(ev.id, ev.name)])

\* showNotification(id, name, count) up to
\* `await vscode.window.showInformationMessage(message, 'Open')`.
ShowNotification(ev, count) ==
  /\ Len(prompts) < MaxPrompts
  /\ prompts' = Append(prompts, [id |-> ev.id, name |-> ev.name,
                                  message |-> MessageOf(ev.name, count),
                                  state |-> "pending"])
  /\ UNCHANGED opened

\* The user selects 'Open': action === 'Open', executeCommand is called with
\* the target built from this call's id and name.
PromptAccepted(i) ==
  /\ i \in 1..Len(prompts)
  /\ prompts[i].state = "pending"
  /\ prompts' = [prompts EXCEPT ![i].state = "accepted"]
  /\ opened' = Append(opened, [by |-> i,
                                target |-> TargetOf(prompts[i].id, prompts[i].name)])

\* The message is dismissed: showInformationMessage resolves to undefined.
PromptDismissed(i) ==
  /\ i \in 1..Len(prompts)
  /\ prompts[i].state = "pending"
  /\ prompts' = [prompts EXCEPT ![i].state = "dismissed"]
  /\ UNCHANGED opened

PromptIdle ==
  /\ prompts = <<>>
  /\ opened = <<>>

\* ----------------------------------------------------------------------
\* SlackTreeDataProvider: refresh, _getRootItems, _loadData
\* (src/src/slackTreeDataProvider.ts)
\* ----------------------------------------------------------------------

NoChannels == -1
NoError == "none"

LoadsInFlight == BagCardinality(loads)
LoadsAt(pc) == {l \in BagToSet(loads) : l.pc = pc}
LoadLeaves(l) == loads (-) SetToBag({l})
LoadMoves(l, m) == (loads (-) SetToBag({l})) (+) SetToBag({m})

\* refresh()
refresh ==
  /\ refreshes < MaxRefreshes
  /\ refreshes' = refreshes + 1
  /\ loaded' = FALSE
  /\ treeChannels' = NoChannels
  /\ treeError' = NoError
  /\ dirty' = TRUE
  /\ UNCHANGED <<loading, loads, lastLoad>>

\* The view asks for the root items (getChildren(undefined)) after a change
\* event: _getRootItems() runs up to `await this._loadData()`, which it calls
\* only when neither flag is set; _loadData() runs up to its await of
\* getToken().
GetRootItems ==
  /\ dirty
  /\ dirty' = FALSE
  /\ IF ~loaded /\ ~loading
       THEN /\ LoadsInFlight < MaxLoads
            /\ loads' = loads (+) SetToBag({[pc |-> "token", began |-> refreshes,
                                             asked |-> -1]})
       ELSE UNCHANGED loads
  /\ UNCHANGED <<loaded, loading, treeChannels, treeError, refreshes, lastLoad>>

\* `await this.authManager.getToken()` rejects: the await is outside the try,
\* the load rejects and no field is written.
LoadTokenRejects(l) ==
  /\ loads' = LoadLeaves(l)
  /\ lastLoad' = l.began
  /\ UNCHANGED <<loaded, loading, treeChannels, treeError, dirty, refreshes>>

\* if (!token) { this._error = ...; this._loaded = true; return; }
LoadTokenAbsent(l) ==
  /\ treeError' = "token not set"
  /\ loaded' = TRUE
  /\ loads' = LoadLeaves(l)
  /\ lastLoad' = l.began
  /\ UNCHANGED <<loading, treeChannels, dirty, refreshes>>

\* this._loading = true; fire(); then testAuth() is called.
LoadTokenPresent(l) ==
  /\ loading' = TRUE
  /\ dirty' = TRUE
  /\ loads' = LoadMoves(l, [l EXCEPT !.pc = "auth"])
  /\ UNCHANGED <<loaded, treeChannels, treeError, refreshes, lastLoad>>

\* finally { this._loading = false; this._loaded = true; fire(); }
LoadFinally(l) ==
  /\ loading' = FALSE
  /\ loaded' = TRUE
  /\ dirty' = TRUE
  /\ loads' = LoadLeaves(l)
  /\ lastLoad' = l.began

\* testAuth() resolves not ok: the error is stored and the load returns.
LoadAuthFails(l) ==
  /\ treeError' = "token error"
  /\ LoadFinally(l)
  /\ UNCHANGED <<treeChannels, refreshes>>

\* testAuth() resolves ok: getChannels() is called.
LoadAuthOk(l) ==
  /\ loads' = LoadMoves(l, [l EXCEPT !.pc = "channels", !.asked = refreshes])
  /\ UNCHANGED <<loaded, loading, treeChannels, treeError, dirty, refreshes,
                 lastLoad>>

\* getChannels() resolves: the sorted channels are stored.
LoadChannelsOk(l) ==
  /\ treeChannels' = l.asked
  /\ treeError' = NoError
  /\ LoadFinally(l)
  /\ UNCHANGED refreshes

\* getChannels() rejects: catch (err) { this._error = ... }
LoadChannelsFail(l) ==
  /\ treeError' = "error"
  /\ LoadFinally(l)
  /\ UNCHANGED <<treeChannels, refreshes>>

LoadTokenResolve ==
  \E l \in LoadsAt("token") :
    LoadTokenRejects(l) \/ LoadTokenAbsent(l) \/ LoadTokenPresent(l)
LoadAuthResolve ==
  \E l \in LoadsAt("auth") : LoadAuthFails(l) \/ LoadAuthOk(l)
LoadChannelsResolve ==
  \E l \in LoadsAt("channels") : LoadChannelsOk(l) \/ LoadChannelsFail(l)

\* The provider as constructed; the view is about to ask for the root items.
TreeIdle ==
  /\ loaded = FALSE
  /\ loading = FALSE
  /\ treeChannels = NoChannels
  /\ treeError = NoError
  /\ dirty = TRUE
  /\ loads = EmptyBag
  /\ refreshes = 0
  /\ lastLoad = -1

\* ----------------------------------------------------------------------
\* SlackTreeDataProvider: addDM, removeDM (src/src/slackTreeDataProvider.ts)
\* ----------------------------------------------------------------------

PinUsers == {"U1", "U2", "U3"}
PinDmIds == {"D1", "D2"}

\* this._pinnedDMs.some((d) => d.userId === userId)
IsPinned(list, userId) == \E i \in 1..Len(list) : list[i].userId = userId

\* this._pinnedDMs.filter((d) => d.userId !== userId)
WithoutUser(list, userId) ==
  LET Other(d) == d.userId # userId IN SelectSeq(list, Other)

\* Mutant of addDM: the duplicate test is lost.
addDMUnchecked(userId, dmId) ==
  /\ Len(pinWrites) < MaxPinCalls
  /\ lastPin' = [op |-> "add", userId |-> userId,
                  wasPinned |-> IsPinned(pinnedDMs, userId)]
  /\ pinnedDMs' = Append(pinnedDMs, [userId |-> userId, dmId |-> dmId])
  /\ pinWrites' = Append(pinWrites, pinnedDMs')
  /\ UNCHANGED <<persisted, pinFires>>

\* addDM(userId, userName, dmId) up to `await globalState.update(...)`; for a
\* pinned userId it returns at once.
addDM(userId, dmId) ==
  /\ Len(pinWrites) < MaxPinCalls
  /\ lastPin' = [op |-> "add", userId |-> userId,
                  wasPinned |-> IsPinned(pinnedDMs, userId)]
  /\ IF IsPinned(pinnedDMs, userId)
       THEN UNCHANGED <<pinnedDMs, persisted, pinWrites, pinFires>>
       ELSE /\ pinnedDMs' = Append(pinnedDMs, [userId |-> userId, dmId |-> dmId])
            /\ pinWrites' = Append(pinWrites, pinnedDMs')
            /\ UNCHANGED <<persisted, pinFires>>

\* removeDM(userId) up to `await globalState.update(...)`.
removeDM(userId) ==
  /\ Len(pinWrites) < MaxPinCalls
  /\ lastPin' = [op |-> "remove", userId |-> userId,
                  wasPinned |-> IsPinned(pinnedDMs, userId)]
  /\ pinnedDMs' = WithoutUser(pinnedDMs, userId)
  /\ pinWrites' = Append(pinWrites, pinnedDMs')
  /\ UNCHANGED <<persisted, pinFires>>

\* The oldest update settles: the list it carried is stored, and the call
\* that awaited it fires the change event and returns.
PinWriteSettles ==
  /\ pinWrites # <<>>
  /\ persisted' = Head(pinWrites)
  /\ pinWrites' = Tail(pinWrites)
  /\ pinFires' = (pinFires + 1) % 2
  /\ lastPin' = [op |-> "settle", userId |-> "", wasPinned |-> FALSE]
  /\ UNCHANGED pinnedDMs

\* The provider as constructed in a session that stored no list yet.
PinIdle ==
  /\ pinnedDMs = <<>>
  /\ persisted = <<>>
  /\ pinWrites = <<>>
  /\ pinFires = 0
  /\ lastPin = [op |-> "none", userId |-> "", wasPinned |-> FALSE]

\* ----------------------------------------------------------------------
\* The unread computations a poll cycle has in flight: getChannels() fans
\* _fetchUnreadCount out over the listed channels (part_001), then
\* checkNewMessages reads the pinned conversations one at a time
\* (slackNotificationManager.ts)
\* ----------------------------------------------------------------------

\* withConcurrencyLimit(channels, 5, ...)
FanoutLimit == 5

FanLeaves(c) == fanCycles (-) SetToBag({c})
FanMoves(c, d) == (fanCycles (-) SetToBag({c})) (+) SetToBag({d})
FanAt(pc) == {c \in BagToSet(fanCycles) : c.pc = pc}
FanNewCycle(origin) ==
  [origin |-> origin, pc |-> "token", n |-> 0, index |-> 0, running |-> 0,
   pins |-> 0]

\* The unread computations in flight: the tasks the pools are awaiting, and
\* one for each cycle that awaits getUnreadCount of a pinned conversation.
RECURSIVE SumRunning(_)
SumRunning(b) ==
  IF b = EmptyBag THEN 0
  ELSE LET c == CHOOSE x \in BagToSet(b) : TRUE
       IN  (IF c.pc = "dms" THEN 1 ELSE c.running) + SumRunning(b (-) SetToBag({c}))
UnreadInFlight == SumRunning(fanCycles)

\* start() with no timer: the initial cycle is awaited.
FanStart ==
  /\ fanTimer = "off"
  /\ BagCardinality(fanCycles) < MaxCycles
  /\ fanTimer' = "initial"
  /\ fanCycles' = fanCycles (+) SetToBag({FanNewCycle("start")})

\* stop()
FanStop ==
  /\ fanTimer = "armed"
  /\ fanTimer' = "off"
  /\ UNCHANGED fanCycles

\* The interval fires: checkNewMessages() is called and not awaited.
FanTick ==
  /\ fanTimer = "armed"
  /\ BagCardinality(fanCycles) < MaxCycles
  /\ fanCycles' = fanCycles (+) SetToBag({FanNewCycle("tick")})
  /\ UNCHANGED fanTimer

\* A cycle ends; start() arms the interval after its initial cycle.
FanEnds(c) ==
  /\ fanCycles' = FanLeaves(c)
  /\ fanTimer' = IF c.origin = "start" /\ fanTimer = "initial"
                   THEN "armed" ELSE fanTimer

\* getToken() resolves: no token ends the cycle; with a token the pinned
\* list is read and getChannels() starts its listing.
FanToken ==
  \E c \in FanAt("token") :
    \/ FanEnds(c)
    \/ \E p \in 0..Cardinality(DMIds) :
         /\ fanCycles' = FanMoves(c, [c EXCEPT !.pc = "listing", !.pins = p])
         /\ UNCHANGED fanTimer

\* The next step of a cycle once its pool has returned (or was not needed):
\* the first pinned conversation is read, or the cycle completes.
FanAfterPool(c) ==
  IF c.pins > 0
    THEN /\ fanCycles' = FanMoves(c, [c EXCEPT !.pc = "dms", !.running = 0])
         /\ UNCHANGED fanTimer
    ELSE FanEnds(c)

\* _listAllChannels() settles: it rejects and the cycle is caught, or it
\* returns n channels and withConcurrencyLimit starts min(5, n) workers, each
\* calling _fetchUnreadCount on one channel.
FanListing ==
  \E c \in FanAt("listing") :
    \/ FanEnds(c)
    \/ \E n \in 0..MaxChannels :
         IF n = 0 THEN FanAfterPool(c)
         ELSE /\ fanCycles' = FanMoves(c, [c EXCEPT !.pc = "pool", !.n = n,
                                                    !.index = Min(FanoutLimit, n),
                                                    !.running = Min(FanoutLimit, n)])
              /\ UNCHANGED fanTimer

\* One _fetchUnreadCount of a pool settles: its worker takes the next
\* channel, or ends; the pool returns with its last worker.
FanTaskSettles ==
  \E c \in FanAt("pool") :
    IF c.index < c.n
      THEN /\ fanCycles' = FanMoves(c, [c EXCEPT !.index = c.index + 1])
           /\ UNCHANGED fanTimer
      ELSE IF c.running > 1
             THEN /\ fanCycles' = FanMoves(c, [c EXCEPT !.running = c.running - 1])
                  /\ UNCHANGED fanTimer
             ELSE FanAfterPool(c)

\* getUnreadCount(dm.dmId) settles: the next pinned conversation is read, the
\* cycle completes, or (a rejection) it is caught.
FanPinSettles ==
  \E c \in FanAt("dms") :
    \/ FanEnds(c)
    \/ /\ c.pins > 1
       /\ fanCycles' = FanMoves(c, [c EXCEPT !.pins = c.pins - 1])
       /\ UNCHANGED fanTimer

FanIdle ==
  /\ fanTimer = "off"
  /\ fanCycles = EmptyBag

\* ----------------------------------------------------------------------
\* SlackError, explainError and call() (part_001), and the callers that hand
\* the message on: testAuth() and the add-DM command (extension.ts).
\* A text is a sequence of pieces; an identifier is one piece wherever it
\* occurs, a list of identifiers is its identifiers separated by ",".
\* An optional value is the empty set or a singleton.
\* ----------------------------------------------------------------------

Absent == {}
Some(v) == {v}
\* opt ?? d
OrElse(opt, d) == IF opt = Absent THEN d ELSE CHOOSE v \in opt : TRUE

\* String.prototype.includes
Includes(text, part) ==
  \E i \in 0..(Len(text) - Len(part)) : SubSeq(text, i + 1, i + Len(part)) = part

ExplainErrorGeneric(error, needed) == <<"Slack API error: ", error>>

explainError(error, needed) ==
  CASE error = "invalid_auth" ->
         <<"Token is invalid. Please check your Slack token.">>
    [] error = "not_authed" ->
         <<"No token provided. Please set your token via \"Slack: Set Token\".">>
    [] error = "missing_scope" ->
         <<"Missing required OAuth scope: ">> \o OrElse(needed, <<"(unknown)">>)
           \o <<". Please add it to your Slack App settings.">>
    [] error = "ratelimited" ->
         <<"Rate limited by Slack. Please wait a moment and refresh.">>
    [] error = "channel_not_found" ->
         <<"Channel or DM not found. It might have been deleted or you lack permission.">>
    [] error = "is_archived" ->
         <<"This channel is archived.">>
    [] OTHER -> <<"Slack API error: ", error>>

\* new SlackError(code, needed): no message is passed by call()
SlackError(code, needed) ==
  [thrown |-> TRUE, code |-> code, needed |-> needed,
   message |-> explainError(code, needed)]
NotThrown == [thrown |-> FALSE, code |-> "", needed |-> Absent, message |-> <<>>]

\* What the remote service may answer: error "" is an absent error field,
\* id "" an absent channel.id / user_id.
ErrorCodes ==
  {"", "missing_scope", "invalid_auth", "not_authed", "ratelimited",
   "channel_not_found", "is_archived", "account_inactive"}
NeededTexts ==
  {<<>>, <<"im:write">>, <<"im:read">>, <<"channels:read", ",", "im:write">>}
ScopeResponses ==
  [ok : BOOLEAN, error : ErrorCodes,
   needed : {Absent} \cup {Some(t) : t \in NeededTexts}, id : {"", "D1"}]
NoResponse == [ok |-> TRUE, error |-> "", needed |-> Absent, id |-> ""]

ImWriteGuidance ==
  <<"Failed to add DM: The \"", "im:write", "\" scope is missing.",
    "\n\nTo fix this:\n1. Open your Slack App settings.\n2. Add \"", "im:write",
    "\" to User Token Scopes.\n3. Reinstall the app to your workspace.">>

\* openDMConversation not called: nothing looked up, opened or returned.
\* kind is "none", "value" (it returned id) or "error" (it threw).
NoDm == [find |-> "none", foundId |-> "", opened |-> FALSE, kind |-> "none", id |-> ""]

\* What _findExistingDM may do: reject, return undefined, or return im.id of
\* the conversation it found ("" when that has no id).
FindOutcomes ==
  {[find |-> "failed", foundId |-> ""], [find |-> "notfound", foundId |-> ""]}
    \cup {[find |-> "found", foundId |-> i] : i \in {"", "D1", "D2"}}

StageTwoAlways(f) == TRUE

\* openDMConversation after stage 1: conversations.open is called unless
\* `if (existingDmId) { return existingDmId; }` returned.
StageTwoNeeded(f) == ~(f.find = "found" /\ f.foundId # "")

\* testAuth() is called: call('auth.test') is awaited.
ScopeTestAuth ==
  /\ scopePc = "idle"
  /\ scopeOp' = "testAuth"
  /\ scopePc' = "call"
  /\ UNCHANGED <<scopeResponse, scopeError, scopeShown, scopeDm>>

\* The add-DM command's onDidAccept with a selected user:
\* openDMConversation awaits _findExistingDM.
ScopeAddDm ==
  /\ scopePc = "idle"
  /\ scopeOp' = "addDm"
  /\ scopePc' = "find"
  /\ UNCHANGED <<scopeResponse, scopeError, scopeShown, scopeDm>>

\* _findExistingDM settles: with an id openDMConversation returns it and the
\* pin is added; with nothing found, or a rejection (caught and logged),
\* conversations.open is called.
ScopeFindSettles ==
  /\ scopePc = "find"
  /\ \E f \in FindOutcomes :
       IF StageTwoNeeded(f)
         THEN /\ scopePc' = "call"
              /\ scopeDm' = [scopeDm EXCEPT !.find = f.find, !.foundId = f.foundId,
                                            !.opened = TRUE]
         ELSE /\ scopePc' = "done"
              /\ scopeDm' = [scopeDm EXCEPT !.find = f.find, !.foundId = f.foundId,
                                            !.kind = "value", !.id = f.foundId]
  /\ UNCHANGED <<scopeOp, scopeResponse, scopeError, scopeShown>>

\* The message the add-DM command shows for a caught error message.
AddDmMessage(message) ==
  IF Includes(message, <<"im:write">>) THEN ImWriteGuidance ELSE message

\* What the operation hands on once call() has thrown err.
ScopeHandsOn(err) ==
  IF scopeOp = "testAuth" THEN err.message ELSE AddDmMessage(err.message)

\* call() settles with the response r; the operation runs to its end.
ScopeCallSettles ==
  /\ scopePc = "call"
  /\ \E r \in ScopeResponses :
       /\ scopeResponse' = r
       /\ IF ~r.ok /\ r.error # ""
            THEN /\ scopeError' = SlackError(r.error, r.needed)
                 /\ scopeShown' = ScopeHandsOn(SlackError(r.error, r.needed))
            ELSE /\ scopeError' = NotThrown
                 /\ scopeShown' =
                      IF scopeOp = "addDm" /\ r.id = ""
                        THEN AddDmMessage(<<"Failed to obtain DM channel ID.">>)
                        ELSE <<>>
       /\ scopeDm' =
            IF scopeOp # "addDm" THEN scopeDm
            ELSE IF (~r.ok /\ r.error # "") \/ r.id = ""
                   THEN [scopeDm EXCEPT !.kind = "error"]
                   ELSE [scopeDm EXCEPT !.kind = "value", !.id = r.id]
  /\ scopePc' = "done"
  /\ UNCHANGED scopeOp

\* The next command starts from a fresh client.
ScopeAgain ==
  /\ scopePc = "done"
  /\ scopeOp' = "none"
  /\ scopePc' = "idle"
  /\ scopeResponse' = NoResponse
  /\ scopeError' = NotThrown
  /\ scopeShown' = <<>>
  /\ scopeDm' = NoDm

ScopeIdle ==
  /\ scopeOp = "none"
  /\ scopePc = "idle"
  /\ scopeResponse = NoResponse
  /\ scopeError = NotThrown
  /\ scopeShown = <<>>
  /\ scopeDm = NoDm

\* ----------------------------------------------------------------------
\* SlackConversationView: the sendMessage branch of a panel's message
\* handler (slackConversationView.ts), with postMessage and markAsRead of
\* the client (part_001). The handler is async: the handling of one
\* message may interleave with that of the next.
\* ----------------------------------------------------------------------

\* How a call of the client's call() may settle: the transport rejects, the
\* remote answers ok: false with an error code or without one, or ok: true.
CallSettlings == {"transport", "error", "noerror", "ok"}

\* call(): `if (!res.ok && res.error) throw`, and a rejection of httpsPost
SettlingThrows(out) == out \in {"transport", "error"}

\* markAsRead: try { await this.call('conversations.mark') } catch { log }
MarkAsReadThrows(out) == FALSE

NotSent == [pc |-> "idle", post |-> "none", mark |-> "none", result |-> "none",
            called |-> 0]

SendAt(pc) == {i \in DOMAIN sends : sends[i].pc = pc}

\* A sendMessage message arrives. A text that is no string, or blank after
\* trim(), is answered with ok: false; otherwise getToken() is awaited.
SendReceive ==
  \E i \in SendAt("idle") : \E text \in {"nonstring", "blank", "text"} :
    /\ \A j \in 1..(i - 1) : sends[j].pc # "idle"
    /\ sends' = [sends EXCEPT ![i] =
         IF text = "text" THEN [@ EXCEPT !.pc = "token"]
         ELSE [@ EXCEPT !.pc = "done", !.result = "fail"]]

\* getToken() settles: no token is answered with ok: false; a rejection
\* leaves the handler (the await is outside the try); with a token
\* client.postMessage is awaited.
SendToken ==
  \E i \in SendAt("token") : \E tok \in {"present", "absent", "rejects"} :
    sends' = [sends EXCEPT ![i] =
      CASE tok = "present" -> [@ EXCEPT !.pc = "post"]
        [] tok = "absent" -> [@ EXCEPT !.pc = "done", !.result = "fail"]
        [] OTHER -> [@ EXCEPT !.pc = "done"]]

\* chat.postMessage settles: a throw is caught and answered with ok: false;
\* otherwise postMessage returns res.message?.ts ?? '' and markAsRead is
\* awaited.
SendPostSettles ==
  \E i \in SendAt("post") : \E out \in CallSettlings :
    sends' = [sends EXCEPT ![i] =
      IF SettlingThrows(out)
        THEN [@ EXCEPT !.pc = "done", !.post = out, !.result = "fail"]
        ELSE [@ EXCEPT !.pc = "mark", !.post = out]]

\* conversations.mark settles: the success result is posted to the webview
\* and awaited, unless markAsRead threw.
SendMarkSettles ==
  \E i \in SendAt("mark") : \E out \in CallSettlings :
    sends' = [sends EXCEPT ![i] =
      IF MarkAsReadThrows(out)
        THEN [@ EXCEPT !.pc = "done", !.mark = out, !.result = "fail"]
        ELSE [@ EXCEPT !.pc = "reply", !.mark = out, !.result = "ok"]]

\* panel.webview.postMessage({ ok: true }) resolves: onMessageSent() is called.
SendReplySettles ==
  \E i \in SendAt("reply") :
    sends' = [sends EXCEPT ![i] = [@ EXCEPT !.pc = "done", !.called = @ + 1]]

\* The conversations a panel may be opened for.
PanelIds == {"C1", "C2", "D1"}

NoViewEvent == [op |-> "none", id |-> "", h |-> 0, fresh |-> FALSE]

\* Mutant of ViewOpen: a panel is created whether or not one is registered.
ViewOpenAlwaysCreates(id) ==
  /\ panelsCreated < MaxPanels
  /\ panelsCreated' = panelsCreated + 1
  /\ panels' = [panels EXCEPT ![id] = panelsCreated + 1]
  /\ livePanels' = livePanels \cup {[h |-> panelsCreated + 1, id |-> id]}
  /\ viewLast' = [op |-> "open", id |-> id, h |-> panelsCreated + 1, fresh |-> TRUE]
  /\ UNCHANGED sends

\* open(target), up to its await of render(): a registered panel is revealed
\* and rendered again; otherwise a panel is created, registered under
\* target.id, given its handlers, and rendered.
ViewOpen(id) ==
  /\ IF panels[id] # 0
       THEN /\ viewLast' = [op |-> "open", id |-> id, h |-> panels[id], fresh |-> FALSE]
            /\ UNCHANGED <<panels, livePanels, panelsCreated>>
       ELSE /\ panelsCreated < MaxPanels
            /\ panelsCreated' = panelsCreated + 1
            /\ panels' = [panels EXCEPT ![id] = panelsCreated + 1]
            /\ livePanels' = livePanels \cup {[h |-> panelsCreated + 1, id |-> id]}
            /\ viewLast' = [op |-> "open", id |-> id, h |-> panelsCreated + 1,
                            fresh |-> TRUE]
  /\ UNCHANGED sends

\* A panel is disposed (closed by the user): its onDidDispose handler runs
\* this.panels.delete(target.id).
ViewDispose(p) ==
  /\ p \in livePanels
  /\ livePanels' = livePanels \ {p}
  /\ panels' = [panels EXCEPT ![p.id] = 0]
  /\ viewLast' = [op |-> "dispose", id |-> p.id, h |-> p.h, fresh |-> FALSE]
  /\ UNCHANGED <<panelsCreated, sends>>

ViewIdle ==
  /\ sends = [i \in 1..MaxSends |-> NotSent]
  /\ panels = [id \in PanelIds |-> 0]
  /\ livePanels = {}
  /\ panelsCreated = 0
  /\ viewLast = NoViewEvent

ExtensionIdle == PromptIdle /\ TreeIdle /\ PinIdle /\ FanIdle /\ ScopeIdle /\ ViewIdle

PollerInit ==
  /\ timer = 0
  /\ unreadCache = EmptyMap
  /\ isFirstRun = TRUE
  /\ cycles = EmptyBag
  /\ armed = {}
  /\ emitted = <<>>
  /\ lastStep = "init"
  /\ running = FALSE
  /\ lastInstall = {}

UnreadIdle ==
  /\ myUserId = Undefined
  /\ conv = [last_read |-> Undefined, messages |-> <<>>]
  /\ infoOut = "none"
  /\ histOut = "none"
  /\ fpc = "idle"
  /\ fresult = -1
  /\ histReq = 0
  /\ histParams = NoRequest

Init == PollerInit /\ history = FALSE /\ UnreadIdle /\ ListIdle /\ PoolIdle /\ DeltaIdle /\ ExtensionIdle
InitHistory == PollerInit /\ history = TRUE /\ UnreadIdle /\ ListIdle /\ PoolIdle /\ DeltaIdle /\ ExtensionIdle

PollerFrame == UNCHANGED <<history, myUserId, conv, infoOut, histOut, fpc, fresult, histReq,
                           histParams,
                           listVars, poolVars, deltaVars, extensionVars, lastInstall>>

Next ==
  \/ StartNoop /\ PollerFrame
  \/ StartRun /\ PollerFrame
  \/ stop /\ PollerFrame
  \/ Tick /\ PollerFrame
  \/ TokenResolve /\ PollerFrame
  \/ ChannelsResolve /\ PollerFrame
  \/ DMResolve /\ PollerFrame

Spec == Init /\ [][Next]_vars

\* The poller, with a record of what each installation does to the stored
\* snapshot.
InstallFrame ==
  /\ UNCHANGED <<history, unreadVars, listVars, poolVars, deltaVars, extensionVars>>
  /\ lastInstall' =
       IF lastStep' \in {"baseline", "finish"}
         THEN {t \in {"dropped"} : DOMAIN unreadCache \ DOMAIN unreadCache' # {}}
              \cup {t \in {"lowered"} :
                      \E id \in DOMAIN unreadCache \cap DOMAIN unreadCache' :
                        unreadCache'[id] < unreadCache[id]}
         ELSE {}

NextInstalls ==
  \/ StartNoop /\ InstallFrame
  \/ StartRun /\ InstallFrame
  \/ stop /\ InstallFrame
  \/ Tick /\ InstallFrame
  \/ TokenResolve /\ InstallFrame
  \/ ChannelsResolve /\ InstallFrame
  \/ DMResolve /\ InstallFrame

SpecInstalls == Init /\ [][NextInstalls]_vars

\* The poller with its history recorded, in an environment that calls start()
\* only when no earlier start() still awaits its initial cycle: every overlap
\* of cycles in these behaviours is the interval timer's own.
NextHistory ==
  \/ StartNoop /\ PollerFrame
  \/ StartRun /\ StartsInFlight = 0 /\ PollerFrame
  \/ stop /\ PollerFrame
  \/ Tick /\ PollerFrame
  \/ TokenResolve /\ PollerFrame
  \/ ChannelsResolve /\ PollerFrame
  \/ DMResolve /\ PollerFrame

SpecHistory == InitHistory /\ [][NextHistory]_vars

\* The same, with the event loop doing its part: an armed interval fires, and
\* every await of a cycle settles. The calls of start() and stop() are the
\* environment's and are under no obligation.
SpecHistoryLive ==
  /\ InitHistory
  /\ [][NextHistory]_vars
  /\ WF_vars(Tick /\ PollerFrame)
  /\ WF_vars(TokenResolve /\ PollerFrame)
  /\ WF_vars(ChannelsResolve /\ PollerFrame)
  /\ WF_vars(DMResolve /\ PollerFrame)

\* One run of _fetchUnreadCount; the poller stays as constructed.
InitUnread ==
  /\ PollerInit
  /\ history = FALSE
  /\ myUserId \in Identities
  /\ conv \in [last_read : LastReads, messages : MessageLists]
  /\ infoOut = "none"
  /\ histOut = "none"
  /\ fpc = "idle"
  /\ fresult = -1
  /\ histReq = 0
  /\ histParams = NoRequest
  /\ ListIdle
  /\ PoolIdle
  /\ DeltaIdle
  /\ ExtensionIdle

UnreadFrame == UNCHANGED <<pollerVars, listVars, poolVars, deltaVars, extensionVars>>

NextUnread ==
  \/ FetchBegin /\ UnreadFrame
  \/ \E out \in CallOutcomes : InfoResolve(out) /\ UnreadFrame
  \/ \E out \in CallOutcomes : HistResolve(out) /\ UnreadFrame

SpecUnread == InitUnread /\ [][NextUnread]_vars

\* _fetchUnreadCount on conversations with a backlog around the page size:
\* the remote holds a message at the marker, or none, and then 0 to 120
\* messages of one kind.
Marker == "1700000000.000100"
BacklogLengths == {0, 1, 99, 100, 101, 120}
MessageAtMarker == [subtype |-> "", user |-> "U2", ts |-> Marker]
Backlogs ==
  {(IF withMarker THEN <<MessageAtMarker>> ELSE <<>>) \o [i \in 1..n |-> k] :
     withMarker \in BOOLEAN, n \in BacklogLengths, k \in MessageKinds}

InitLookback ==
  /\ PollerInit
  /\ history = FALSE
  /\ myUserId \in Identities
  /\ conv \in [last_read : LastReads, messages : Backlogs]
  /\ infoOut = "none"
  /\ histOut = "none"
  /\ fpc = "idle"
  /\ fresult = -1
  /\ histReq = 0
  /\ histParams = NoRequest
  /\ ListIdle
  /\ PoolIdle
  /\ DeltaIdle
  /\ ExtensionIdle

SpecLookback == InitLookback /\ [][NextUnread]_vars

\* The user the token belongs to: the user_id auth.test would report.
SessionUser == "U1"

\* _fetchUnreadCount as a poll cycle runs it: checkNewMessages builds its own
\* client (`new SlackApiClient(token)`) and calls getChannels() on it without
\* calling testAuth() first, so myUserId is as the constructor leaves it.
InitPollerClient ==
  /\ PollerInit
  /\ history = FALSE
  /\ myUserId = Undefined
  /\ conv \in [last_read : LastReads, messages : MessageLists]
  /\ infoOut = "none"
  /\ histOut = "none"
  /\ fpc = "idle"
  /\ fresult = -1
  /\ histReq = 0
  /\ histParams = NoRequest
  /\ ListIdle
  /\ PoolIdle
  /\ DeltaIdle
  /\ ExtensionIdle

SpecPollerClient == InitPollerClient /\ [][NextUnread]_vars

\* One listing call against a remote that serves P1..Pn in sequence.
InitList ==
  /\ PollerInit
  /\ history = FALSE
  /\ UnreadIdle
  /\ remote \in PageChains
  /\ listKind \in ListKinds
  /\ listPc = "idle"
  /\ listCursor = 0
  /\ listSent = 0
  /\ listResults = <<>>
  /\ listReqs = 0
  /\ listOut = "none"
  /\ findUser = ""
  /\ PoolIdle
  /\ DeltaIdle
  /\ ExtensionIdle

ListFrame == UNCHANGED <<pollerVars, unreadVars, poolVars, deltaVars, extensionVars>>

NextList ==
  \/ ListBegin /\ ListFrame
  \/ \E out \in CallOutcomes : ListReply(out) /\ ListFrame
  \/ ListResume /\ ListFrame

SpecList == InitList /\ [][NextList]_vars

\* One listing call against any remote; every request is answered.
InitListAny ==
  /\ PollerInit
  /\ history = FALSE
  /\ UnreadIdle
  /\ remote \in PageTables
  /\ listKind \in ListKinds
  /\ listPc = "idle"
  /\ listCursor = 0
  /\ listSent = 0
  /\ listResults = <<>>
  /\ listReqs = 0
  /\ listOut = "none"
  /\ findUser = ""
  /\ PoolIdle
  /\ DeltaIdle
  /\ ExtensionIdle

SpecListLive == InitListAny /\ [][NextList]_vars /\ WF_vars(NextList)

\* One call of withConcurrencyLimit(items, limit, fn).
InitPool ==
  /\ PollerInit
  /\ history = FALSE
  /\ UnreadIdle
  /\ ListIdle
  /\ poolItems \in ItemLists
  /\ poolLimit \in Limits
  /\ poolPc = "idle"
  /\ poolIndex = 0
  /\ poolRunning = {}
  /\ poolResults = <<>>
  /\ poolRuns = <<>>
  /\ poolFailed = {}
  /\ DeltaIdle
  /\ ExtensionIdle

PoolFrame == UNCHANGED <<pollerVars, unreadVars, listVars, deltaVars, extensionVars>>

NextPool ==
  \/ PoolStart /\ PoolFrame
  \/ \E i \in 1..MaxTasks : TaskFulfils(i) /\ PoolFrame
  \/ \E i \in 1..MaxTasks : TaskRejects(i) /\ PoolFrame
  \/ PoolReturn /\ PoolFrame

SpecPool == InitPool /\ [][NextPool]_vars

\* The channel loop on listings and stored snapshots over three conversations.
LoopIds == <<"A", "B", "C">>
LoopCounts == {0, 1, 2, 5, 7}
LoopSnapshots ==
  UNION {[S -> LoopCounts] : S \in SUBSET {LoopIds[i] : i \in 1..Len(LoopIds)}}
LoopListings ==
  {LET ids == SelectSeq(LoopIds, LAMBDA id : id \in DOMAIN g)
   IN  [i \in 1..Len(ids) |-> [id |-> ids[i], unread_count |-> g[ids[i]]]]
     : g \in LoopSnapshots}

InitDelta ==
  /\ PollerInit
  /\ history = FALSE
  /\ UnreadIdle
  /\ ListIdle
  /\ PoolIdle
  /\ dStored \in LoopSnapshots
  /\ dFirst \in BOOLEAN
  /\ dChannels \in LoopListings
  /\ dPc = "ready"
  /\ dNewCache = EmptyMap
  /\ dNews = <<>>
  /\ ExtensionIdle

DeltaFrame == UNCHANGED <<pollerVars, unreadVars, listVars, poolVars, extensionVars>>

NextDelta == RunChannelLoop /\ DeltaFrame

SpecDelta == InitDelta /\ [][NextDelta]_vars

\* The information messages of showNotification and the user's answers.
InitPrompt ==
  /\ PollerInit
  /\ history = FALSE
  /\ UnreadIdle
  /\ ListIdle
  /\ PoolIdle
  /\ DeltaIdle
  /\ PromptIdle
  /\ TreeIdle
  /\ PinIdle
  /\ FanIdle
  /\ ScopeIdle
  /\ ViewIdle

PromptFrame == UNCHANGED <<pollerVars, unreadVars, listVars, poolVars, deltaVars,
                           treeVars, pinVars, fanVars, scopeVars, viewVars>>

NextPrompt ==
  \/ \E ev \in NotifiedEvents, n \in NotifiedCounts :
       ShowNotification(ev, n) /\ PromptFrame
  \/ \E i \in 1..MaxPrompts : PromptAccepted(i) /\ PromptFrame
  \/ \E i \in 1..MaxPrompts : PromptDismissed(i) /\ PromptFrame

SpecPrompt == InitPrompt /\ [][NextPrompt]_vars

\* The tree provider: the view asks for the root items after every change
\* event, refresh() is called at any moment, and every await of a load
\* settles. refresh() is the user's and is under no obligation.
InitTree ==
  /\ PollerInit
  /\ history = FALSE
  /\ UnreadIdle
  /\ ListIdle
  /\ PoolIdle
  /\ DeltaIdle
  /\ PromptIdle
  /\ TreeIdle
  /\ PinIdle
  /\ FanIdle
  /\ ScopeIdle
  /\ ViewIdle

TreeFrame == UNCHANGED <<pollerVars, unreadVars, listVars, poolVars, deltaVars,
                         promptVars, pinVars, fanVars, scopeVars, viewVars>>

NextTree ==
  \/ refresh /\ TreeFrame
  \/ GetRootItems /\ TreeFrame
  \/ LoadTokenResolve /\ TreeFrame
  \/ LoadAuthResolve /\ TreeFrame
  \/ LoadChannelsResolve /\ TreeFrame

SpecTree ==
  /\ InitTree
  /\ [][NextTree]_vars
  /\ WF_vars(GetRootItems /\ TreeFrame)
  /\ WF_vars(LoadTokenResolve /\ TreeFrame)
  /\ WF_vars(LoadAuthResolve /\ TreeFrame)
  /\ WF_vars(LoadChannelsResolve /\ TreeFrame)

\* The pinned list under addDM and removeDM calls made at any moment, each
\* update settling later, in the order of the calls.
InitPins ==
  /\ PollerInit
  /\ history = FALSE
  /\ UnreadIdle
  /\ ListIdle
  /\ PoolIdle
  /\ DeltaIdle
  /\ PromptIdle
  /\ TreeIdle
  /\ PinIdle
  /\ FanIdle
  /\ ScopeIdle
  /\ ViewIdle

PinFrame == UNCHANGED <<pollerVars, unreadVars, listVars, poolVars, deltaVars,
                        promptVars, treeVars, fanVars, scopeVars, viewVars>>

NextPins ==
  \/ \E u \in PinUsers, d \in PinDmIds : addDM(u, d) /\ PinFrame
  \/ \E u \in PinUsers : removeDM(u) /\ PinFrame
  \/ PinWriteSettles /\ PinFrame

SpecPins == InitPins /\ [][NextPins]_vars

\* One run of any of the three cursor loops (_listAllChannels, listUsers,
\* _findExistingDM) against a remote whose pages chain to the end.
FindUsers == {"a", "b", "x", "z"}

InitPaging ==
  /\ PollerInit
  /\ history = FALSE
  /\ UnreadIdle
  /\ remote \in PageChains
  /\ \/ listKind \in ListKinds /\ findUser = ""
     \/ listKind = "im" /\ findUser \in FindUsers
  /\ listPc = "idle"
  /\ listCursor = 0
  /\ listSent = 0
  /\ listResults = <<>>
  /\ listReqs = 0
  /\ listOut = "none"
  /\ PoolIdle
  /\ DeltaIdle
  /\ ExtensionIdle

NextPaging ==
  \/ ListBegin /\ ListFrame
  \/ \E out \in CallOutcomes : ListReply(out) /\ ListFrame
  \/ listKind \in ListKinds /\ ListResume /\ ListFrame
  \/ FindResume /\ ListFrame

SpecPaging == InitPaging /\ [][NextPaging]_vars

\* The poller's schedule with the unread computations of its cycles counted.
InitFanout ==
  /\ PollerInit
  /\ history = FALSE
  /\ UnreadIdle
  /\ ListIdle
  /\ PoolIdle
  /\ DeltaIdle
  /\ PromptIdle
  /\ TreeIdle
  /\ PinIdle
  /\ FanIdle
  /\ ScopeIdle
  /\ ViewIdle

FanFrame == UNCHANGED <<pollerVars, unreadVars, listVars, poolVars, deltaVars,
                        promptVars, treeVars, pinVars, scopeVars, viewVars>>

NextFanout ==
  \/ FanStart /\ FanFrame
  \/ FanStop /\ FanFrame
  \/ FanTick /\ FanFrame
  \/ FanToken /\ FanFrame
  \/ FanListing /\ FanFrame
  \/ FanTaskSettles /\ FanFrame
  \/ FanPinSettles /\ FanFrame

SpecFanout == InitFanout /\ [][NextFanout]_vars

\* One client operation against every answer of the remote service.
InitScope ==
  /\ PollerInit
  /\ history = FALSE
  /\ UnreadIdle
  /\ ListIdle
  /\ PoolIdle
  /\ DeltaIdle
  /\ PromptIdle
  /\ TreeIdle
  /\ PinIdle
  /\ FanIdle
  /\ ScopeIdle
  /\ ViewIdle

ScopeFrame == UNCHANGED <<pollerVars, unreadVars, listVars, poolVars, deltaVars,
                          promptVars, treeVars, pinVars, fanVars, viewVars>>

NextScope ==
  \/ ScopeTestAuth /\ ScopeFrame
  \/ ScopeAddDm /\ ScopeFrame
  \/ ScopeFindSettles /\ ScopeFrame
  \/ ScopeCallSettles /\ ScopeFrame
  \/ ScopeAgain /\ ScopeFrame

SpecScope == InitScope /\ [][NextScope]_vars

\* The message handler of one conversation panel.
InitSend ==
  /\ PollerInit
  /\ history = FALSE
  /\ UnreadIdle
  /\ ListIdle
  /\ PoolIdle
  /\ DeltaIdle
  /\ PromptIdle
  /\ TreeIdle
  /\ PinIdle
  /\ FanIdle
  /\ ScopeIdle
  /\ ViewIdle

SendFrame == UNCHANGED <<pollerVars, unreadVars, listVars, poolVars, deltaVars,
                         promptVars, treeVars, pinVars, fanVars, scopeVars,
                         panels, livePanels, panelsCreated, viewLast>>

NextSend ==
  \/ SendReceive /\ SendFrame
  \/ SendToken /\ SendFrame
  \/ SendPostSettles /\ SendFrame
  \/ SendMarkSettles /\ SendFrame
  \/ SendReplySettles /\ SendFrame

SpecSend == InitSend /\ [][NextSend]_vars

\* The panels of the conversation view under opens and disposals.
InitPanels == InitSend

PanelFrame == UNCHANGED <<pollerVars, unreadVars, listVars, poolVars, deltaVars,
                          promptVars, treeVars, pinVars, fanVars, scopeVars>>

NextPanels ==
  \/ \E id \in PanelIds : ViewOpen(id) /\ PanelFrame
  \/ \E p \in livePanels : ViewDispose(p) /\ PanelFrame

SpecPanels == InitPanels /\ [][NextPanels]_vars

\* ======================================================================
\* Properties
\* ======================================================================
Events(seq) == {seq[i] : i \in 1..Len(seq)}
\* the events the step-6 rule asks for, between snapshot old and snapshot new
PositiveDeltas(new, old) ==
  {[id |-> id, count |-> new[id] - GetOrZero(old, id)] :
     id \in {i \in DOMAIN new : new[i] > GetOrZero(old, i)}}
ExactlyTheDeltas(events, new, old) ==
  /\ Events(events) = PositiveDeltas(new, old)
  /\ Len(events) = Cardinality(PositiveDeltas(new, old))
Range(seq) == {seq[i] : i \in 1..Len(seq)}

\* C1 (baseline suppression): the step in which the first cycle completes
\* emits no event, whatever counts it observed; it clears isFirstRun and
\* stores the snapshot that cycle built (every entry the cycle had computed,
\* over the cycle's candidates); and while isFirstRun holds no other step
\* (a skipped, rejected or failed cycle included) changes it or the stored
\* snapshot.
C1_BaselineSuppression ==
  [][ /\ lastStep' = "baseline" =>
           /\ emitted' = <<>>
           /\ ~isFirstRun'
           /\ \E c \in BagToSet(cycles) :
                /\ cycles' = Leave(c)
                /\ \A id \in DOMAIN c.newCache : /\ id \in DOMAIN unreadCache'
                                                /\ unreadCache'[id] = c.newCache[id]
                /\ Range(c.todo) \subseteq DOMAIN unreadCache'
                /\ DOMAIN unreadCache' \subseteq
                     (IF c.pc = "channels" THEN Channels ELSE DOMAIN c.newCache)
                       \cup Range(c.todo)
      /\ (isFirstRun /\ lastStep' # "baseline") =>
           /\ isFirstRun'
           /\ unreadCache' = unreadCache ]_vars

\* C1 witness: a baseline cycle has just completed with a nonzero count in
\* its snapshot, and nothing was emitted.
C1_Witness ==
  /\ lastStep = "baseline"
  /\ \E id \in DOMAIN unreadCache : unreadCache[id] > 0
  /\ emitted = <<>>

\* C2 (delta emission), as claimed: when a cycle that began after the baseline
\* completes, the events it emits are exactly one event per id of its new
\* snapshot whose count exceeds the old count (0 when absent), with delta
\* new - old, and nothing else. The old snapshot may be read either way: the
\* one stored when the cycle began, or the one the cycle replaces.
C2_DeltaEmission ==
  [][ \A c \in BagToSet(cycles) :
        (cycles' = Leave(c) /\ lastStep' = "finish" /\ ~c.first)
          => \/ ExactlyTheDeltas(emitted', unreadCache', c.old)
             \/ ExactlyTheDeltas(emitted', unreadCache', unreadCache) ]_vars

\* C3 (cycle failure isolation): a step in which a cycle ends in its catch
\* block, and every step of a cycle before its completion, leaves the stored
\* snapshot and the baseline flag as they were and emits no event: only the
\* completing step of a cycle writes or emits.
C3_FailureIsolation ==
  [][ lastStep' \notin {"baseline", "finish"} =>
        /\ unreadCache' = unreadCache
        /\ isFirstRun' = isFirstRun
        /\ emitted' = <<>> ]_vars

\* C3 witness: a cycle has just failed after it had computed entries, while
\* a snapshot with a nonzero count was stored.
C3_Witness ==
  /\ lastStep = "fail_partial"
  /\ ~isFirstRun
  /\ \E id \in DOMAIN unreadCache : unreadCache[id] > 0

\* C4 (no overlapping poll cycles), as claimed: at every moment at most one
\* poll cycle is in flight.
C4_NoOverlappingCycles == InFlight <= 1

\* C5 (cancellation), as claimed: in a step that ends with the poller
\* stopped (stop() was the last lifecycle call), no timer is armed and no
\* cycle starts.
C5_StopCancels ==
  [][ ~running' => (armed' \subseteq armed /\ InFlight' <= InFlight) ]_vars

\* C6 (no duplicate or missing notification), as claimed: whenever a snapshot
\* replaces a stored one, the events emitted are exactly the increases between
\* the replaced and the installed snapshot, one event each.
C6_ExactlyOncePerIncrease ==
  [][ lastStep' = "finish" =>
        ExactlyTheDeltas(emitted', unreadCache', unreadCache) ]_vars

\* C7 (credential absent): the step in which a cycle finds no token ends the
\* cycle, issues no remote request, leaves the stored snapshot and the
\* baseline flag unchanged and emits no event.
C7_NoTokenSkips ==
  [][ lastStep' = "skip" =>
        /\ \E c \in Awaiting("token") : cycles' = Leave(c)
        /\ RequestsInFlight(cycles') = RequestsInFlight(cycles)
        /\ unreadCache' = unreadCache
        /\ isFirstRun' = isFirstRun
        /\ emitted' = <<>> ]_vars

\* C7 witness: a cycle has just been skipped while a snapshot with a nonzero
\* count was stored.
C7_Witness ==
  /\ lastStep = "skip"
  /\ ~isFirstRun
  /\ \E id \in DOMAIN unreadCache : unreadCache[id] > 0

Failed(out) == out \notin {"none", "ok"}

\* C8 (the unread computation never fails): _fetchUnreadCount never rejects;
\* what it returns is a non-negative integer, and it is 0 whenever one of its
\* calls failed (rejected response, response without ok, transport failure,
\* unparsable body).
C8_NeverFails ==
  /\ fpc # "threw"
  /\ fpc = "done" =>
       /\ fresult \in Nat
       /\ (Failed(infoOut) \/ Failed(histOut)) => fresult = 0

\* C8 witness: the history call failed in transport for a conversation whose
\* messages would have counted; 0 was returned.
C8_Witness ==
  /\ fpc = "done"
  /\ infoOut = "ok"
  /\ histOut = "transport"
  /\ \E i \in 1..Len(conv.messages) : conv.messages[i].subtype = ""
  /\ fresult = 0

\* C9 (no marker): when the metadata carries no last-read marker, or the
\* metadata call failed, the result is 0 whatever messages the conversation holds.
C9_NoMarkerIsZero ==
  (fpc = "done" /\ (Failed(infoOut) \/ ~Truthy(conv.last_read))) => fresult = 0

\* C9 witness: metadata fetched, no marker in it, the conversation holds
\* messages by other users; 0 was returned.
C9_Witness ==
  /\ fpc = "done"
  /\ infoOut = "ok"
  /\ conv.last_read = Undefined
  /\ \E i \in 1..Len(conv.messages) :
       conv.messages[i].subtype = "" /\ conv.messages[i].user = "U2"
  /\ fresult = 0

\* The count C10 asks for, written from the claim: messages with empty subtype
\* whose author is not the session's identity; every message with empty
\* subtype when the identity is unresolved.
Qualifying(messages, me) ==
  Cardinality({i \in 1..Len(messages) :
                 /\ messages[i].subtype = ""
                 /\ (me = Undefined \/ messages[i].user # me)})

\* C10 as claimed: with a last-read marker T in the metadata (and no failed
\* call), the result is the number of qualifying messages of the history
\* response after T.
C10_MarkerCount_AsClaimed ==
  (fpc = "done" /\ infoOut = "ok" /\ Truthy(conv.last_read) /\ ~Failed(histOut))
    => fresult = Qualifying(conv.messages, myUserId)

\* C10 amended: the same for every marker T other than "0"; for the marker
\* "0" the result is 0 and no history is requested.
C10_MarkerCount ==
  /\ (fpc = "done" /\ infoOut = "ok" /\ Truthy(conv.last_read)
        /\ conv.last_read # "0" /\ ~Failed(histOut))
       => (histOut = "ok" /\ fresult = Qualifying(conv.messages, myUserId))
  /\ (fpc = "done" /\ infoOut = "ok" /\ conv.last_read = "0")
       => (fresult = 0 /\ histReq = 0)

\* C10 witness: the spec's example. Five messages after the marker, two of
\* them system events and one written by the session's user: the result is 2.
C10_Witness ==
  /\ fpc = "done"
  /\ myUserId = "U1"
  /\ conv.last_read \notin {Undefined, "", "0"}
  /\ Len(conv.messages) = 5
  /\ Cardinality({i \in 1..5 : conv.messages[i].subtype # ""}) = 2
  /\ Cardinality({i \in 1..5 : conv.messages[i].subtype = ""
                                 /\ conv.messages[i].user = "U1"}) = 1
  /\ histOut = "ok"
  /\ fresult = 2

\* The messages of a conversation that someone other than the session's user
\* wrote (system events included).
ByOthers(messages) ==
  Cardinality({i \in 1..Len(messages) : messages[i].user # SessionUser})

\* C11 (self-authored messages are excluded in a poll cycle), as claimed: the
\* count a poll cycle's client computes for a conversation never exceeds the
\* number of its messages written by others, so a message of the session's
\* own user never raises it.
C11_SelfExcludedInPoll ==
  fpc = "done" => fresult <= ByOthers(conv.messages)

\* P1 + ... + Pk
RECURSIVE AllItems(_, _)
AllItems(pages, k) ==
  IF k = 0 THEN <<>> ELSE AllItems(pages, k - 1) \o pages[k].items

\* C12 (pagination completeness): against a remote that serves P1..Pn in
\* sequence, every page but the last with a continuation cursor, a listing
\* whose requests were all answered with a page returns the filtered items of
\* P1 + ... + Pn in order, each once, and has issued exactly n requests.
C12_PaginationComplete ==
  (listPc = "done" /\ listOut = "ok") =>
    /\ listResults = FilterItems(listKind, AllItems(remote, Len(remote)))
    /\ listReqs = Len(remote)

\* C12 witness: a listing over several pages has returned several items, and
\* the filter has dropped at least one.
C12_Witness ==
  /\ listPc = "done"
  /\ listOut = "ok"
  /\ Len(remote) >= 2
  /\ listReqs = Len(remote)
  /\ Len(listResults) >= 2
  /\ Len(listResults) < Len(AllItems(remote, Len(remote)))

\* The results have grown to where the model stops following the listing.
ListCapped == Len(listResults) + MaxPageLen > ResultsCap

\* C13 (pagination termination), as claimed, for the remote the claim names:
\* one page whose continuation cursor leads to that page again, so that every
\* response after the first repeats the cursor of the previous one. A listing
\* whose requests are all answered ends (it returns or rejects).
C13_ListingTerminates ==
  Len(remote) = 1 => <>(listPc \in {"done", "threw"} \/ ListCapped)

\* C14 (result order of the worker pool): a filled slot i holds the value of
\* task i, whatever the order in which the tasks completed; when the pool has
\* returned and no task failed, the array has one slot per task and every
\* slot is filled.
C14_ResultOrder ==
  /\ \A i \in 1..Len(poolResults) :
       poolResults[i].filled => poolResults[i].value = poolItems[i]
  /\ (poolPc = "done" /\ poolFailed = {}) =>
       /\ Len(poolResults) = Len(poolItems)
       /\ \A i \in 1..Len(poolItems) : poolResults[i] = Filled(poolItems[i])

\* C14 witness: two tasks with different values run together, the second
\* completed first and its value is in slot 2 while task 1 is in flight.
C14_Witness ==
  /\ poolPc = "running"
  /\ Len(poolItems) >= 2
  /\ poolItems[1] # poolItems[2]
  /\ 1 \in poolRunning
  /\ poolResults[2] = Filled(poolItems[2])
  /\ ~poolResults[1].filled

\* C15 (isolation of a failing task), as claimed: when the pool, run with
\* limit K < N, has returned, the array has N slots, the slot of every task
\* that did not fail holds its value, and the slot of a task that failed
\* holds a value as well (the fallback) rather than being left empty.
C15_FailedSlotHoldsFallback ==
  (poolPc = "done" /\ poolLimit < Len(poolItems)) =>
    /\ Len(poolResults) = Len(poolItems)
    /\ \A i \in 1..Len(poolItems) :
         IF i \in poolFailed
           THEN poolResults[i].filled
           ELSE poolResults[i] = Filled(poolItems[i])

\* C16 (bounded concurrency): at most min(K, N) tasks are in flight, and
\* after the launch a task is started only in the step in which a worker
\* finished the task it awaited, one task for one task.
C16_BoundedConcurrency ==
  [][ /\ Cardinality(poolRunning') <= Min(poolLimit, Len(poolItems))
      /\ (poolPc = "running" /\ poolRunning' \ poolRunning # {}) =>
           /\ Cardinality(poolRunning' \ poolRunning) = 1
           /\ Cardinality(poolRunning \ poolRunning') = 1 ]_vars

\* C16 witness: more tasks than workers, several workers; the pool is at its
\* limit with a task that was started after the launch.
C16_Witness ==
  /\ poolPc = "running"
  /\ poolLimit >= 2
  /\ Len(poolItems) > poolLimit
  /\ Cardinality(poolRunning) = poolLimit
  /\ \E i \in poolRunning : i > poolLimit

\* C17 (errors never end the schedule), as claimed: whenever a cycle has
\* failed (in its catch block, or by a rejected credential lookup) while the
\* poller is Running, the poller is later stopped or a cycle is in flight
\* again.
C17_ScheduleSurvivesFailure ==
  (running /\ lastStep \in {"fail", "fail_partial", "reject"})
    ~> (~running \/ InFlight > 0)

\* the ids of a channel listing, and the counts it carries
ListedIds(chs) == {chs[i].id : i \in 1..Len(chs)}
ListedCount(chs, id) == chs[CHOOSE i \in 1..Len(chs) : chs[i].id = id].unread_count
\* the snapshots a completing cycle can have built: its listing's counts when
\* it completes on the listing, else the entries it holds and one count for
\* the pinned conversation it waited for
BuiltSnapshots(c) ==
  IF c.pc = "dms"
    THEN {MapSet(c.newCache, Head(c.todo), n) : n \in UnreadCounts}
    ELSE {[id \in ListedIds(chs) |-> ListedCount(chs, id)] : chs \in ChannelLists}
CandidateSets(c) ==
  IF c.pc = "dms" THEN {DOMAIN c.newCache \cup Range(c.todo)}
  ELSE {ListedIds(chs) \cup Range(c.todo) : chs \in ChannelLists}

\* C18 (the snapshot holds the cycle's candidates only): the step in which a
\* cycle completes stores a snapshot whose key set is that cycle's candidate
\* set, the channels of its listing united with the pinned conversations it
\* read, whatever the replaced snapshot held; and every event of the step is
\* for an id of that set.
C18_SnapshotKeysAreCandidates ==
  [][ lastStep' \in {"baseline", "finish"} =>
        \E c \in BagToSet(cycles) :
          /\ cycles' = Leave(c)
          /\ DOMAIN unreadCache' \in CandidateSets(c)
          /\ \A e \in Events(emitted') : e.id \in DOMAIN unreadCache' ]_vars

\* C18 witness: a cycle after the baseline has just completed, and an id of
\* the snapshot it replaced is absent from the one it stored.
C18_Witness ==
  /\ lastStep = "finish"
  /\ "dropped" \in lastInstall
  /\ \A e \in Events(emitted) : e.id \in DOMAIN unreadCache

\* C19 (unconditional replacement): the step in which a cycle completes
\* stores the snapshot that cycle built, entry for entry, whether or not the
\* step emits anything; and what a completing step compares in that step is
\* compared against the snapshot stored by the completion before it, so an
\* entry it adds is notified exactly when it exceeds the stored count.
C19_AlwaysReplaces ==
  [][ \A c \in BagToSet(cycles) :
        (cycles' = Leave(c) /\ lastStep' \in {"baseline", "finish"}) =>
          /\ unreadCache' \in BuiltSnapshots(c)
          /\ \A id \in DOMAIN c.newCache : unreadCache'[id] = c.newCache[id]
          /\ lastStep' = "finish" =>
               \A id \in DOMAIN unreadCache' \ DOMAIN c.newCache :
                 (\E e \in Events(emitted') : e.id = id)
                   <=> unreadCache'[id] > GetOrZero(unreadCache, id) ]_vars

\* C19 witness: a cycle after the baseline has just completed without
\* emitting anything, and it stored a count lower than the one it replaced.
C19_Witness ==
  /\ lastStep = "finish"
  /\ emitted = <<>>
  /\ "lowered" \in lastInstall

\* the events for the ids that the old snapshot holds, and no others
KnownDeltas(new, old) ==
  {[id |-> id, count |-> new[id] - old[id]] :
     id \in {i \in DOMAIN new \cap DOMAIN old : new[i] > old[i]}}

\* C20 (delta emission, the example), as claimed: after the baseline, the
\* loop emits one event per id whose count exceeds the count the stored
\* snapshot holds for it, and nothing for an id the stored snapshot lacks:
\* from {A:2, B:5} to {A:2, B:7, C:1}, one event, for B with delta 2.
C20_DeltaExample_AsClaimed ==
  (dPc = "done" /\ ~dFirst) =>
    /\ Events(dNews) = KnownDeltas(dNewCache, dStored)
    /\ Len(dNews) = Cardinality(KnownDeltas(dNewCache, dStored))

\* C20, amended: after the baseline, the loop emits one event per id whose
\* count exceeds the stored count, an id the stored snapshot lacks counting
\* as stored with 0: from {A:2, B:5} to {A:2, B:7, C:1}, two events, B with
\* delta 2 and C with delta 1, in listing order.
C20_DeltaExample ==
  (dPc = "done" /\ ~dFirst) =>
    /\ ExactlyTheDeltas(dNews, dNewCache, dStored)
    /\ \A i, j \in 1..Len(dNews) :
         i < j => \E k, l \in 1..Len(dChannels) :
                    /\ k < l
                    /\ dChannels[k].id = dNews[i].id
                    /\ dChannels[l].id = dNews[j].id
    /\ (dStored = ("A" :> 2 @@ "B" :> 5)
          /\ dNewCache = ("A" :> 2 @@ "B" :> 7 @@ "C" :> 1))
         => dNews = <<[id |-> "B", count |-> 2], [id |-> "C", count |-> 1]>>

\* C20 witness: the loop has run on the example's inputs.
C20_Witness ==
  /\ dPc = "done"
  /\ ~dFirst
  /\ dStored = ("A" :> 2 @@ "B" :> 5)
  /\ dNewCache = ("A" :> 2 @@ "B" :> 7 @@ "C" :> 1)
  /\ Len(dNews) = 2

\* C21 (baseline is per start), as claimed: the initial cycle of a start(),
\* the first cycle of the run that start() begins, emits no event when it
\* completes, whatever the counts it observed and whatever an earlier run
\* left stored.
C21_BaselinePerStart ==
  [][ \A c \in BagToSet(cycles) :
        (cycles' = Leave(c) /\ c.origin = "start"
           /\ lastStep' \in {"baseline", "finish"})
          => emitted' = <<>> ]_vars

\* C22 (a failed page aborts the listing), as claimed: once a request of the
\* listing has been answered with a failure and the listing has resumed, the
\* listing has rejected: it has not returned a list, and it has no further
\* request in flight.
C22_FailedPageAborts ==
  (Failed(listOut) /\ listPc # "reply") => listPc = "threw"

\* C23 (errors never reach the user): a step hands events to showNotification
\* only when it completes a cycle after the baseline, and each event then
\* carries a positive count, at most the count just stored for its id; a
\* step that skips, rejects or fails a cycle, or completes the baseline, or
\* is no completion at all, shows nothing.
C23_SinkOnlyOnPositiveDelta ==
  [][ /\ emitted' # <<>> =>
           /\ lastStep' = "finish"
           /\ \A e \in Events(emitted') :
                /\ e.count > 0
                /\ e.id \in DOMAIN unreadCache'
                /\ e.count <= unreadCache'[e.id]
      /\ lastStep' \in {"skip", "reject", "fail", "fail_partial"} =>
           emitted' = <<>> ]_vars

\* C23 witness: a cycle after the baseline has just completed and shown an
\* event, every event with a positive count.
C23_Witness ==
  /\ lastStep = "finish"
  /\ emitted # <<>>
  /\ \A e \in Events(emitted) : e.count > 0

\* the calls of the openConversation command made for message i
OpenedBy(i) == {k \in 1..Len(opened) : opened[k].by = i}

\* C24 (the 'Open' action routes to the conversation): for every message
\* shown, the openConversation command has been called exactly once, with
\* the id the message was shown for, when the user selected 'Open', and not
\* at all while the message waits for the selection or once it was dismissed.
C24_OpenRoutesOnce ==
  \A i \in 1..Len(prompts) :
    /\ prompts[i].state = "accepted" =>
         /\ Cardinality(OpenedBy(i)) = 1
         /\ \A k \in OpenedBy(i) : opened[k].target.id = prompts[i].id
    /\ prompts[i].state \in {"pending", "dismissed"} => OpenedBy(i) = {}

\* C24 witness: of three messages one was accepted, one was dismissed and
\* one still waits, and the command has been called once.
C24_Witness ==
  /\ \E i, j, k \in 1..Len(prompts) :
       /\ prompts[i].state = "accepted"
       /\ prompts[j].state = "dismissed"
       /\ prompts[k].state = "pending"
       /\ prompts[i].id = prompts[j].id
  /\ Len(opened) = 1

\* C25 (refresh re-triggers the load), as claimed: after the k-th refresh(),
\* a load that began after that refresh eventually runs to its end.
C25_RefreshReloads ==
  \A k \in 1..MaxRefreshes : (refreshes = k) ~> (lastLoad >= k)

ReturnedCursor == PageOf(listOut, listSent).next_cursor

\* C27 (pagination protocol): the first request of a loop carries no cursor;
\* a later request is issued only on resuming from a response, and carries
\* the cursor that response returned, which is not empty; a response that is
\* no failure and whose cursor is empty or absent ends the loop with no
\* further request; and a listing goes on to the next request after every
\* such response whose cursor is not empty (_findExistingDM does the same
\* unless the page holds the user looked for).
C27_PaginationProtocol ==
  [][ /\ (listPc = "idle" /\ listPc' = "await") => listSent' = 0
      /\ listReqs' # listReqs =>
           /\ listPc \in {"idle", "reply"}
           /\ listPc' = "await"
      /\ (listPc = "reply" /\ listPc' = "await") =>
           /\ ReturnedCursor # 0
           /\ listSent' = ReturnedCursor
      /\ (listPc = "reply" /\ ~CallThrows(listOut) /\ ReturnedCursor = 0) =>
           /\ listPc' = "done"
           /\ listReqs' = listReqs
      /\ (listPc = "reply" /\ ~CallThrows(listOut) /\ ReturnedCursor # 0
            /\ ~(listKind = "im"
                   /\ HasUser(PageOf(listOut, listSent).items, findUser))) =>
           listPc' = "await" ]_vars

\* C27 witness: a loop over three pages has ended on the last page, after
\* one request per page, the last carrying the cursor of the last page.
C27_Witness ==
  /\ listPc = "done"
  /\ listOut = "ok"
  /\ Len(remote) >= 3
  /\ listReqs = Len(remote)
  /\ listSent = Len(remote)

\* C28 (bounded lookback): one unread computation issues at most one history
\* request, whatever the backlog; the request carries the last-read marker
\* as exclusive lower bound and a page size of 100; and the count returned
\* is between 0 and 100, the message at the marker never counted.
C28_BoundedLookback ==
  /\ histReq <= 1
  /\ histReq = 1 =>
       histParams = [oldest |-> conv.last_read, limit |-> 100, inclusive |-> FALSE]
  /\ fpc = "done" =>
       /\ fresult \in 0..100
       /\ fresult <= Len(SelectSeq(conv.messages, LAMBDA m : "ts" \notin DOMAIN m))

\* C28 witness: the computation has returned 100 for a conversation that
\* holds a message at the marker and more than 100 after it, after one
\* history request.
C28_Witness ==
  /\ fpc = "done"
  /\ fresult = 100
  /\ histReq = 1
  /\ Len(conv.messages) > 101
  /\ "ts" \in DOMAIN conv.messages[1]

\* C29 (the fan-out of a poll is bounded), as claimed: while the interval is
\* armed, at most 5 unread computations are in flight, those of the channel
\* fan-out and of the pinned conversations together.
C29_FanoutBounded ==
  fanTimer = "armed" => UnreadInFlight <= 5

\* The remote answered the call with a missing-permission failure that names
\* the needed permission.
MissingPermission ==
  /\ scopePc = "done"
  /\ ~scopeResponse.ok
  /\ scopeResponse.error = "missing_scope"
  /\ scopeResponse.needed # Absent

NeededText == OrElse(scopeResponse.needed, <<>>)

\* C30 (the needed permission reaches the caller): a missing-permission
\* failure yields an error that carries the needed-permission identifier the
\* remote returned, the identifier appears in the error's message and in the
\* errorMessage testAuth returns, and the add-DM command finds "im:write" in
\* the message whenever the remote named it.
C30_NeededReachesCaller ==
  MissingPermission =>
    /\ scopeError.thrown
    /\ scopeError.code = "missing_scope"
    /\ scopeError.needed = scopeResponse.needed
    /\ Includes(scopeError.message, NeededText)
    /\ (scopeOp = "testAuth" => Includes(scopeShown, NeededText))
    /\ (scopeOp = "addDm" /\ Includes(NeededText, <<"im:write">>))
         => scopeShown = ImWriteGuidance

C30_Witness ==
  /\ MissingPermission
  /\ scopeOp = "addDm"
  /\ scopeResponse.needed = Some(<<"channels:read", ",", "im:write">>)
  /\ scopeShown = ImWriteGuidance

\* C31 (openDMConversation looks before it opens): once it has ended, a
\* conversation found with an id was returned without the open call; a failed
\* or empty lookup led to the open call; and it threw only after an open call
\* that failed or returned no conversation id.
C31_LookupBeforeOpen ==
  (scopePc = "done" /\ scopeOp = "addDm") =>
    /\ (scopeDm.find = "found" /\ scopeDm.foundId # "")
         => (~scopeDm.opened /\ scopeDm.kind = "value" /\ scopeDm.id = scopeDm.foundId)
    /\ (scopeDm.find \in {"failed", "notfound"} => scopeDm.opened)
    /\ scopeDm.kind = "error"
         => (scopeDm.opened /\ (scopeError.thrown \/ scopeResponse.id = ""))
    /\ (scopeDm.opened /\ ~scopeError.thrown /\ scopeResponse.id # "")
         => (scopeDm.kind = "value" /\ scopeDm.id = scopeResponse.id)

C31_Witness ==
  /\ scopePc = "done"
  /\ scopeOp = "addDm"
  /\ scopeDm.find = "failed"
  /\ scopeDm.opened
  /\ scopeDm.kind = "value"
  /\ scopeDm.id = "D1"

\* C32 (a failed mark-as-read never fails the send), as claimed: a send
\* whose post succeeded and whose mark-as-read call has settled, however,
\* is answered with the success result, and once it has ended the callback
\* was invoked exactly once; the success result and the callback come only
\* after a post call that succeeded.
C32_MarkFailureIgnored ==
  \A i \in DOMAIN sends :
    /\ (sends[i].post = "ok" /\ sends[i].mark # "none") => sends[i].result = "ok"
    /\ (sends[i].post = "ok" /\ sends[i].pc = "done") => sends[i].called = 1
    /\ sends[i].called <= 1
    /\ (sends[i].result = "ok" \/ sends[i].called > 0) => sends[i].post = "ok"

\* C33 (one timer, never lost), as claimed: at every moment at most one
\* interval is armed, and an armed interval is the one this.timer holds (the
\* one stop() would cancel).
C33_OneTimerNoneLost ==
  /\ Cardinality(armed) <= 1
  /\ armed \subseteq {timer}

\* C34 (every task exactly once): no task is ever started twice; a task in
\* flight or settled was started; and when the pool has returned, each of the
\* N tasks was started once and none is in flight, so all have settled
\* (stored or failed).
C34_EachTaskOnce ==
  /\ \A i \in 1..Len(poolRuns) : poolRuns[i] <= 1
  /\ \A i \in poolRunning \cup poolFailed : poolRuns[i] = 1
  /\ \A i \in 1..Len(poolResults) : poolResults[i].filled => poolRuns[i] = 1
  /\ poolPc = "done" =>
       /\ Len(poolRuns) = Len(poolItems)
       /\ poolRunning = {}
       /\ \A i \in 1..Len(poolItems) :
            /\ poolRuns[i] = 1
            /\ (poolResults[i].filled \/ i \in poolFailed)

\* C34 witness: three tasks on two workers have all settled, one of them by
\* failing, and the pool has returned.
C34_Witness ==
  /\ poolPc = "done"
  /\ Len(poolItems) = 3
  /\ poolLimit = 2
  /\ Cardinality(poolFailed) = 1
  /\ \A i \in 1..3 : poolRuns[i] = 1

\* C35 (a failed response is never a success), as claimed: whenever call()
\* has settled on a response whose ok flag is false, with or without an error
\* code, it has thrown an error rather than handed the response to its caller.
C35_FailedResponseThrows ==
  (scopePc = "done" /\ ~scopeResponse.ok) => scopeError.thrown

\* C36 (one load at a time), as claimed: at every moment at most one
\* _loadData() is in flight.
C36_OneLoadInFlight == LoadsInFlight <= 1

\* A load ends successfully / with one of the outcomes the claim names.
LoadSucceeds == \E l \in LoadsAt("channels") : LoadChannelsOk(l)
LoadEnds ==
  \/ \E l \in LoadsAt("token") : LoadTokenAbsent(l)
  \/ \E l \in LoadsAt("auth") : LoadAuthFails(l)
  \/ \E l \in LoadsAt("channels") : LoadChannelsFail(l)
  \/ LoadSucceeds

\* C37 (a finished load leaves the flags settled), as claimed: in the step
\* in which a load ends (the token is missing, the identity check is
\* rejected, the listing threw, or it succeeded) the loading flag is false
\* and the loaded flag true afterwards, and the error text is set exactly
\* when the load did not succeed.
C37_LoadEndsSettled ==
  [][ LoadEnds =>
        /\ ~loading'
        /\ loaded'
        /\ (treeError' # NoError) <=> ~LoadSucceeds ]_vars

LivePanelsOf(id) == {p \in livePanels : p.id = id}

\* C38 (one panel per conversation): no conversation id has two live
\* panels, and the registry holds for each id exactly its live panel; an
\* open for an id that has a panel creates nothing and reveals that panel;
\* an open for an id without one (never opened, or its panel disposed)
\* creates a panel never used before.
C38_OnePanelPerConversation ==
  /\ [](\A id \in PanelIds :
          /\ Cardinality(LivePanelsOf(id)) <= 1
          /\ \A p \in LivePanelsOf(id) : panels[id] = p.h
          /\ panels[id] # 0 => [h |-> panels[id], id |-> id] \in livePanels)
  /\ [][ viewLast'.op = "open" =>
            IF panels[viewLast'.id] # 0
              THEN /\ ~viewLast'.fresh
                   /\ viewLast'.h = panels[viewLast'.id]
                   /\ livePanels' = livePanels
                   /\ panelsCreated' = panelsCreated
              ELSE /\ viewLast'.fresh
                   /\ viewLast'.h > panelsCreated
                   /\ livePanels' = livePanels
                                      \cup {[h |-> viewLast'.h, id |-> viewLast'.id]} ]_vars
  /\ [][ viewLast'.op = "dispose" =>
            /\ panels'[viewLast'.id] = 0
            /\ {p \in livePanels' : p.id = viewLast'.id} = {} ]_vars

\* C38 witness: a conversation whose first panel was disposed has been
\* opened again and then once more: it has one live panel, the second one
\* created for it, and the last open reused it.
C38_Witness ==
  \E id \in PanelIds :
    /\ viewLast = [op |-> "open", id |-> id, h |-> panels[id], fresh |-> FALSE]
    /\ panels[id] >= 2
    /\ LivePanelsOf(id) = {[h |-> panels[id], id |-> id]}
    /\ \A p \in livePanels : p.id = id

====
